---- MODULE Spec2Model ----
(***************************************************************************)
(* Scene compositing and dual-backend encoding pipeline of autocreate.     *)
(*                                                                         *)
(* Part 1 models the render-plan builder (services/renderTiming.ts, kept   *)
(* in src/services/imagePreloadService.ts lines 195-374).                  *)
(* Part 2 models the orchestrator generateWebMFromScenes, the preloader,   *)
(* and the WebCodecs and MediaRecorder backends                            *)
(* (src/services/progressiveVideoService.ts lines 396-2131).               *)
(*                                                                         *)
(* Durations are JavaScript doubles in the source.  They are modelled as   *)
(* fixed-point integers counting 1/UnitsPerSecond of a second; a real      *)
(* division is the floor of the exact quotient, so every computed duration *)
(* is within a few 1e-5 s of the real value, two orders of magnitude below *)
(* the code's tolerance epsilon = 1e-3 s.                                  *)
(***************************************************************************)
EXTENDS Integers, Sequences, FiniteSets, TLC

VARIABLES
  scenes,         \* Scene[]: the caller's scene list, [id, duration, footageUrl]
  mode,           \* RenderMode: "preview" or "download"
  fps,            \* the fps argument of buildRenderPlan (plan builder runs)
  plan,           \* the SceneRenderPlanItem[] buildRenderPlan returned
  planPc,         \* "input" before buildRenderPlan was called, "built" after,
                  \* "rebuilt" after a second call
  hasWebCodecs,   \* what hasWebCodecsSupport() answers in this environment
  hardwareConcurrency, \* navigator.hardwareConcurrency, 0 if there is none
  capabilities,   \* what the browser's capability checks answer in this run:
                  \* "allSupported", or "arbitrary" (any answer to each check)
  signalAborted,  \* signal.aborted
  orch,           \* generateWebMFromScenes: the call and its promise
  wc,             \* generateVideoWithWebCodecs: locals and promise
  mr,             \* generateWebMWithMediaRecorder: locals and promise
  pl,             \* preloadAllImages, one run per backend: index, workers
  bitmaps,        \* the ImageBitmaps created and not yet closed
  progress,       \* onProgressCallback's calls: the last value, and whether any
                  \* value was below its predecessor or outside [0, 1]
  abortPoint,     \* where the render was when the abort event fired
  accents,        \* the accent colours computeSceneAccentColor returned, in call
                  \* order (fallback colour runs)
  ffmpeg          \* the MP4 converter: ffmpegInstance, ffmpegLoadingPromise and
                  \* the convertWebMToMP4 calls (conversion runs)

planVars == <<scenes, mode, fps, plan, planPc>>
pipeVars == <<hasWebCodecs, hardwareConcurrency, capabilities, signalAborted, orch, wc,
              mr, pl, bitmaps, progress, abortPoint, accents, ffmpeg>>
vars == <<scenes, mode, fps, plan, planPc, hasWebCodecs, hardwareConcurrency,
          capabilities,
          signalAborted, orch,
          wc, mr, pl, bitmaps, progress, abortPoint, accents, ffmpeg>>

(***************************************************************************)
(* Fixed-point arithmetic                                                  *)
(***************************************************************************)
UnitsPerSecond == 10 * 10000

\* A non-finite duration (NaN, Infinity).  sanitiseDuration and
\* computeTotalSceneDurationSeconds treat it exactly as a non-positive one.
NonFinite == 0 - 1

Max(a, b) == IF a >= b THEN a ELSE b
Min(a, b) == IF a <= b THEN a ELSE b

\* Math.ceil(a / b) for a >= 0, b > 0
CeilDiv(a, b) == (a + b - 1) \div b

\* Math.round(a / b) for a >= 0, b > 0 (ties round up, as Math.round does)
RoundDiv(a, b) == (2 * a + b) \div (2 * b)

\* <<quotient, remainder>> of a * b divided by c, without forming a * b
RECURSIVE MulDivQR(_, _, _)
MulDivQR(a, b, c) ==
  IF b = 0 THEN <<0, 0>>
  ELSE LET h == MulDivQR(a, b \div 10, c)
           t == 10 * h[2] + a * (b % 10)
       IN  <<10 * h[1] + (t \div c), t % c>>

\* floor(a * b / c)
MulDiv(a, b, c) == MulDivQR(a, b, c)[1]

RECURSIVE SumSeq(_)
SumSeq(s) == IF s = <<>> THEN 0 ELSE s[1] + SumSeq(Tail(s))

Rep(x, n) == [i \in 1..n |-> x]

\* a duration given in 1e-4 s, in duration units
Tenth(t) == t * (UnitsPerSecond \div 10000)

(***************************************************************************)
(* Part 1: render plan builder                                             *)
(***************************************************************************)
PREVIEW_MIN_SCENE_DURATION_SECONDS == (75 * UnitsPerSecond) \div 100
PREVIEW_MAX_TOTAL_DURATION_SECONDS == 15 * UnitsPerSecond

epsilon == UnitsPerSecond \div 1000

\* buildRenderPlan's threshold 0.01 s and download fallback 1.2 s
NEAR_ZERO_DURATION == UnitsPerSecond \div 100
DOWNLOAD_FALLBACK_DURATION == (12 * UnitsPerSecond) \div 10

MAX_CLAMP_ITERATIONS == 1000

sanitiseDuration(value) == IF value = NonFinite \/ value <= 0 THEN 0 ELSE value

\* The indices the redistribution pass may still shorten
adjustableIndices(adjusted, minimums) ==
  {i \in DOMAIN adjusted : adjusted[i] - minimums[i] > epsilon}

\* a pass that takes the whole excess from the first adjustable scene
clampReduction_firstOnly(adjusted, minimums, total, targetTotal, i) ==
  LET adj == adjustableIndices(adjusted, minimums)
  IN  IF i \in adj /\ (\A j \in adj : i <= j)
      THEN Min(adjusted[i] - minimums[i], total - targetTotal)
      ELSE 0

\* One pass of the while loop body: every adjustable scene gives up
\* min(its slack, excess / number of adjustable scenes).
clampReduction(adjusted, minimums, total, targetTotal, i) ==
  LET adj == adjustableIndices(adjusted, minimums)
      decrement == (total - targetTotal) \div Cardinality(adj)
      maxReduction == adjusted[i] - minimums[i]
      reduction == Min(maxReduction, decrement)
  IN  IF i \in adj /\ maxReduction > 0 /\ reduction > 0 THEN reduction ELSE 0

\* a loop that stops after its first pass
clampLoop_onePass(adjusted, minimums, total, targetTotal, iterations) ==
  IF ~(total - targetTotal > epsilon) \/ adjustableIndices(adjusted, minimums) = {}
  THEN [adjusted |-> adjusted, total |-> total, iterations |-> iterations,
        passes |-> <<adjusted>>]
  ELSE LET red == [i \in DOMAIN adjusted |->
                     clampReduction(adjusted, minimums, total, targetTotal, i)]
           next == [i \in DOMAIN adjusted |-> adjusted[i] - red[i]]
       IN  [adjusted |-> next, total |-> total - SumSeq(red),
            iterations |-> iterations + 1, passes |-> <<adjusted, next>>]

\* The while loop: [adjusted, total, iterations] when it exits; passes lists
\* the array before the first pass and after every pass
RECURSIVE clampLoop(_, _, _, _, _)
clampLoop(adjusted, minimums, total, targetTotal, iterations) ==
  IF ~(total - targetTotal > epsilon /\ iterations < MAX_CLAMP_ITERATIONS)
  THEN [adjusted |-> adjusted, total |-> total, iterations |-> iterations,
        passes |-> <<adjusted>>]
  ELSE IF adjustableIndices(adjusted, minimums) = {}
  THEN [adjusted |-> adjusted, total |-> total, iterations |-> iterations,
        passes |-> <<adjusted>>]
  ELSE LET red == [i \in DOMAIN adjusted |->
                     clampReduction(adjusted, minimums, total, targetTotal, i)]
           consumed == SumSeq(red)
           next == [i \in DOMAIN adjusted |-> adjusted[i] - red[i]]
       IN  IF consumed <= epsilon
           THEN [adjusted |-> next, total |-> total, iterations |-> iterations,
                 passes |-> <<adjusted, next>>]
           ELSE [clampLoop(next, minimums, total - consumed, targetTotal, iterations + 1)
                   EXCEPT !.passes = <<adjusted>> \o @]

\* The last-resort uniform scale, clamped to the minimums
clampFinalScale(adjusted, minimums, total, targetTotal) ==
  IF total > targetTotal
  THEN [i \in DOMAIN adjusted |->
          Max(minimums[i], MulDiv(adjusted[i], targetTotal, total))]
  ELSE adjusted

clampDurationsWithMinimums(durations, minimums, targetTotal) ==
  IF Len(durations) = 0 THEN durations
  ELSE IF SumSeq(durations) <= targetTotal THEN durations
  ELSE LET out == clampLoop(durations, minimums, SumSeq(durations), targetTotal, 0)
       IN  clampFinalScale(out.adjusted, minimums, out.total, targetTotal)

positiveDurationCount(sanitised) ==
  Cardinality({i \in DOMAIN sanitised : sanitised[i] > 0})

\* a per-scene minimum of 2 s
dynamicMinimum_twoSeconds(sanitised) ==
  IF positiveDurationCount(sanitised) > 0 THEN 2 * UnitsPerSecond ELSE 0

dynamicMinimum(sanitised) ==
  IF positiveDurationCount(sanitised) > 0
  THEN Min(PREVIEW_MIN_SCENE_DURATION_SECONDS,
           PREVIEW_MAX_TOTAL_DURATION_SECONDS \div positiveDurationCount(sanitised))
  ELSE 0

\* mutant: the under-cap pass-through is missing, every list is rescaled to the cap
computeEffectiveDurations_alwaysScale(sc, m) ==
  LET sanitisedDurations == [i \in DOMAIN sc |-> sanitiseDuration(sc[i].duration)]
      totalOriginalDuration == SumSeq(sanitisedDurations)
  IN  IF m # "preview" \/ totalOriginalDuration <= 0 THEN sanitisedDurations
      ELSE [i \in DOMAIN sc |->
              MulDiv(sanitisedDurations[i], PREVIEW_MAX_TOTAL_DURATION_SECONDS,
                     totalOriginalDuration)]

computeEffectiveDurations(sc, m) ==
  LET sanitisedDurations == [i \in DOMAIN sc |-> sanitiseDuration(sc[i].duration)]
      totalOriginalDuration == SumSeq(sanitisedDurations)
      scaledDurations == [i \in DOMAIN sc |->
          IF sanitisedDurations[i] <= 0 THEN 0
          ELSE MulDiv(sanitisedDurations[i], PREVIEW_MAX_TOTAL_DURATION_SECONDS,
                      totalOriginalDuration)]
      minimums == [i \in DOMAIN sc |->
          IF sanitisedDurations[i] > 0 THEN dynamicMinimum(sanitisedDurations) ELSE 0]
      clamped == [i \in DOMAIN sc |->
          IF minimums[i] = 0 THEN 0 ELSE Max(minimums[i], scaledDurations[i])]
  IN  IF m # "preview" THEN sanitisedDurations
      ELSE IF Len(sc) = 0 THEN <<>>
      ELSE IF totalOriginalDuration <= 0 THEN [i \in DOMAIN sc |-> 0]
      ELSE IF totalOriginalDuration <= PREVIEW_MAX_TOTAL_DURATION_SECONDS
           THEN sanitisedDurations
      ELSE clampDurationsWithMinimums(clamped, minimums,
                                      PREVIEW_MAX_TOTAL_DURATION_SECONDS)

\* safeDurationSeconds of one plan item
safeDurationSeconds(durationSecondsRaw, f, m) ==
  IF durationSecondsRaw > NEAR_ZERO_DURATION THEN durationSecondsRaw
  ELSE IF m = "preview" THEN PREVIEW_MIN_SCENE_DURATION_SECONDS
  ELSE Max(DOWNLOAD_FALLBACK_DURATION, UnitsPerSecond \div f)

\* mutant: Math.floor in place of Math.ceil
frameCountFor_floor(duration, f) == Max(1, (duration * f) \div UnitsPerSecond)

\* Math.max(1, Math.ceil(safeDurationSeconds * fps))
frameCountFor(duration, f) == Max(1, CeilDiv(duration * f, UnitsPerSecond))

buildRenderPlan(sc, f, m) ==
  LET effectiveDurations == computeEffectiveDurations(sc, m)
  IN  [i \in DOMAIN sc |->
         LET d == safeDurationSeconds(effectiveDurations[i], f, m)
         IN  [scene |-> sc[i], durationSeconds |-> d, frameCount |-> frameCountFor(d, f)]]

(***************************************************************************)
(* Part 2: orchestrator, preloader and the two encoding backends           *)
(*                                                                         *)
(* JavaScript runs one task at a time: an action below is one task, the    *)
(* synchronous code from one suspension point (await, timer, event) to the *)
(* next.  A continuation that runs as a microtask (the orchestrator's      *)
(* .catch handler, the code after "await preloadAllImages") is an action   *)
(* of its own that has priority over every task (MicrotaskPending).        *)
(***************************************************************************)
MIN_EFFECTIVE_FPS == 4
MIN_DOWNLOAD_FPS == 8
MIN_PREVIEW_FPS == 10
PREVIEW_FRAME_BUDGET == 3000
DOWNLOAD_FRAME_BUDGET == 4500
LONG_FORM_DURATION_THRESHOLD_SECONDS == 120
ULTRA_LONG_DURATION_THRESHOLD_SECONDS == 300
LONG_FORM_LANDSCAPE_LIMIT == 1120
ULTRA_LONG_LANDSCAPE_LIMIT == 960
LONG_FORM_PORTRAIT_LIMIT == 1120
ULTRA_LONG_PORTRAIT_LIMIT == 960
LONG_FORM_BITRATE_LIMIT == 3000000
ULTRA_LONG_BITRATE_LIMIT == 2200000
MIN_DOWNLOAD_BITRATE == 900000
MIN_PREVIEW_BITRATE == 700000
IMAGE_LOAD_RETRIES == 2
INITIAL_RETRY_DELAY_MS == 300
MIN_PRELOAD_CONCURRENCY == 2
MAX_PRELOAD_CONCURRENCY == 6
DEFAULT_PRELOAD_CONCURRENCY == 4
MIN_FRAMES_BETWEEN_YIELDS == 60

RENDER_CONFIG(m) ==
  IF m = "download"
  THEN [fps |-> 24, maxLandscapeWidth |-> 1280, maxPortraitHeight |-> 1280,
        bitrate |-> 3500000]
  ELSE [fps |-> 15, maxLandscapeWidth |-> 854, maxPortraitHeight |-> 960,
        bitrate |-> 1200000]

getRenderConfig(m) == RENDER_CONFIG(m)

computeTotalSceneDurationSeconds(sc) ==
  SumSeq([i \in DOMAIN sc |->
            IF sc[i].duration = NonFinite THEN 0 ELSE Max(0, sc[i].duration)])

\* a frame-budget step that drops to the mode's minimum fps for every list
budgetAdjusted_alwaysMinFps(m, totalDuration) ==
  [fps |-> IF m = "download" THEN MIN_DOWNLOAD_FPS ELSE MIN_PREVIEW_FPS,
   bitrate |-> getRenderConfig(m).bitrate]

\* The frame-budget step: [fps, bitrate] after it
budgetAdjusted(m, totalDuration) ==
  LET baseConfig == getRenderConfig(m)
      frameBudget == IF m = "download" THEN DOWNLOAD_FRAME_BUDGET ELSE PREVIEW_FRAME_BUDGET
      minFps == IF m = "download" THEN MIN_DOWNLOAD_FPS ELSE MIN_PREVIEW_FPS
      minBitrate == IF m = "download" THEN MIN_DOWNLOAD_BITRATE ELSE MIN_PREVIEW_BITRATE
      allowedFpsRaw == (frameBudget * UnitsPerSecond) \div totalDuration
      allowedFps == Max(minFps, Min(baseConfig.fps, allowedFpsRaw))
      newFps == Max(MIN_EFFECTIVE_FPS, allowedFps)
  IN  IF totalDuration * baseConfig.fps > frameBudget * UnitsPerSecond
         /\ allowedFps < baseConfig.fps
      THEN [fps |-> newFps,
            bitrate |-> Max(minBitrate, RoundDiv(baseConfig.bitrate * newFps, baseConfig.fps))]
      ELSE [fps |-> baseConfig.fps, bitrate |-> baseConfig.bitrate]

resolveOptimizedRenderConfig(m, sc) ==
  LET baseConfig == getRenderConfig(m)
      totalDuration == computeTotalSceneDurationSeconds(sc)
      b == budgetAdjusted(m, totalDuration)
      long == totalDuration > LONG_FORM_DURATION_THRESHOLD_SECONDS * UnitsPerSecond
      ultra == totalDuration > ULTRA_LONG_DURATION_THRESHOLD_SECONDS * UnitsPerSecond
      width1 == IF long THEN Min(baseConfig.maxLandscapeWidth, LONG_FORM_LANDSCAPE_LIMIT)
                ELSE baseConfig.maxLandscapeWidth
      height1 == IF long THEN Min(baseConfig.maxPortraitHeight, LONG_FORM_PORTRAIT_LIMIT)
                 ELSE baseConfig.maxPortraitHeight
      bitrate1 == IF long THEN Min(b.bitrate, LONG_FORM_BITRATE_LIMIT) ELSE b.bitrate
      width2 == IF ultra THEN Min(width1, ULTRA_LONG_LANDSCAPE_LIMIT) ELSE width1
      height2 == IF ultra THEN Min(height1, ULTRA_LONG_PORTRAIT_LIMIT) ELSE height1
      bitrate2 == IF ultra THEN Min(bitrate1, ULTRA_LONG_BITRATE_LIMIT) ELSE bitrate1
      minBitrate == IF m = "download" THEN MIN_DOWNLOAD_BITRATE ELSE MIN_PREVIEW_BITRATE
  IN  IF totalDuration <= 0 THEN baseConfig
      ELSE [fps |-> Max(MIN_EFFECTIVE_FPS, Min(baseConfig.fps, b.fps)),
            maxLandscapeWidth |-> width2,
            maxPortraitHeight |-> height2,
            bitrate |-> Max(minBitrate, bitrate2)]

\* navigator.hardwareConcurrency; 0 stands for "no hint available"
resolvePreloadConcurrency(hw) ==
  IF hw > 0
  THEN Min(MAX_PRELOAD_CONCURRENCY, Max(MIN_PRELOAD_CONCURRENCY, hw \div 2))
  ELSE DEFAULT_PRELOAD_CONCURRENCY

\* Progress values are fractions of ProgressOne
ProgressOne == 100 * 100
PRELOAD_WEIGHT == (20 * ProgressOne) \div 100
ENCODE_WEIGHT == (79 * ProgressOne) \div 100
PROGRESS_CAP == (99 * ProgressOne) \div 100

\* Math.min(0.99, baseProgress + stageProgress * stageWeight), stageProgress = num/den
updateOverallProgressValue(num, den, stageWeight, baseProgress) ==
  Min(PROGRESS_CAP, baseProgress + (num * stageWeight) \div den)

(***************************************************************************)
(* The state of one generateWebMFromScenes call, as one record, so that    *)
(* the synchronous code of a task composes as functions on it.             *)
(***************************************************************************)
State ==
  [aborted |-> signalAborted, orch |-> orch, wc |-> wc, mr |-> mr, pl |-> pl,
   bitmaps |-> bitmaps, progress |-> progress]

Commit(S) ==
  /\ signalAborted' = S.aborted
  /\ orch' = S.orch
  /\ wc' = S.wc
  /\ mr' = S.mr
  /\ pl' = S.pl
  /\ bitmaps' = S.bitmaps
  /\ progress' = S.progress

\* onProgressCallback(v)
onProgressCallback(S, v) ==
  [S EXCEPT !.progress =
     [calls |-> Min(@.calls + 1, 2),
      last |-> v,
      regressed |-> @.regressed \/ (@.calls > 0 /\ v < @.last),
      outOfRange |-> @.outOfRange \/ v < 0 \/ v > ProgressOne]]

updateOverallProgress(S, num, den, stageWeight, baseProgress) ==
  onProgressCallback(S, updateOverallProgressValue(num, den, stageWeight, baseProgress))

\* item.dispose?.() for every item of a PreloadedImage[]: closes its bitmap
disposeAll(S, b, images) ==
  LET ks == {images[n].k : n \in {x \in DOMAIN images : images[x].hasBitmap}}
  IN  [S EXCEPT !.bitmaps = {x \in @ : ~(x.b = b /\ x.k \in ks)}]

\* a lookup by position in the completion order instead of by scene id
imageMapGet_byPosition(images, id) == IF id \in DOMAIN images THEN id ELSE 0

\* imageMap.get(scene.id): the last item stored under that id, 0 if none
imageMapGet(images, id) ==
  LET hits == {n \in DOMAIN images : images[n].sceneId = id}
  IN  IF hits = {} THEN 0 ELSE CHOOSE n \in hits : \A x \in hits : x <= n

totalFrames(renderPlan) == SumSeq([i \in DOMAIN renderPlan |-> renderPlan[i].frameCount])

(***************************************************************************)
(* generateWebMFromScenes: the returned promise                            *)
(***************************************************************************)
\* the promise generateWebMFromScenes returned settles (a promise settles once)
orchSettle(S, outcome, error) ==
  IF S.orch.outcome = "pending"
  THEN [S EXCEPT !.orch.outcome = outcome, !.orch.error = error, !.orch.pc = "settled"]
  ELSE S

(***************************************************************************)
(* preloadAllImages                                                        *)
(***************************************************************************)
\* a preloadAllImages call that has not started
plIdle ==
  [status |-> "idle", index |-> 1, completed |-> 0, results |-> <<>>, workers |-> <<>>,
   reported |-> <<0, 0>>]

\* a preloadAllImages call that has returned its results to the caller, after
\* "onProgress('All images preloaded.', 1)"
plDone == [plIdle EXCEPT !.status = "returned", !.reported = <<1, 1>>]

\* variant: one worker per scene, whatever the hint
preloadConcurrency_perScene(hw) == Max(1, Len(scenes))

\* Math.max(1, Math.min(resolvePreloadConcurrency(), scenes.length || MIN_PRELOAD_CONCURRENCY))
preloadConcurrency(hw) ==
  Max(1, Min(resolvePreloadConcurrency(hw),
             IF Len(scenes) = 0 THEN MIN_PRELOAD_CONCURRENCY ELSE Len(scenes)))

setWorker(S, b, w, rec) == [S EXCEPT !.pl[b].workers[w] = rec]

\* Promise.all over the workers: rejects with the first worker that throws,
\* resolves once every worker has returned
promiseAllWorkers(S, b) ==
  LET ws == S.pl[b].workers
  IN  IF S.pl[b].status # "running" THEN S
      ELSE IF \E w \in DOMAIN ws : ws[w].pc = "threw"
           THEN [S EXCEPT !.pl[b].status = "rejected"]
      ELSE IF \A w \in DOMAIN ws : ws[w].pc = "returned"
           THEN [S EXCEPT !.pl[b].status = "resolved"]
      ELSE S

\* a worker throws the AbortError it met
workerThrow(S, b, w) ==
  promiseAllWorkers(setWorker(S, b, w, [pc |-> "threw", i |-> 0, attempt |-> 0, sleeps |-> <<>>]), b)

\* top of worker()'s while loop: throwIfAborted, i = index++, then the start
\* of loadImageWithRetries / loadVideoFrameWithRetries up to its first await
workerLoop(S, b, w) ==
  LET i == S.pl[b].index
      T == [S EXCEPT !.pl[b].index = i + 1]
  IN  IF S.aborted THEN workerThrow(S, b, w)
      ELSE IF i > Len(scenes)
           THEN promiseAllWorkers(
                  setWorker(T, b, w, [pc |-> "returned", i |-> 0, attempt |-> 0, sleeps |-> <<>>]), b)
      ELSE IF scenes[i].footageUrl = ""
           THEN setWorker(T, b, w, [pc |-> "fallback", i |-> i, attempt |-> 0, sleeps |-> <<>>])
      ELSE setWorker(T, b, w, [pc |-> "loading", i |-> i, attempt |-> 0, sleeps |-> <<>>])

RECURSIVE startWorkers(_, _, _, _)
startWorkers(S, b, w, n) ==
  IF w > n THEN S ELSE startWorkers(workerLoop(S, b, w), b, w + 1, n)

\* preloadAllImages up to "await Promise.all": onProgress(0), then every
\* worker runs to its first await
preloadAllImages(S, b, hw) ==
  LET n == preloadConcurrency(hw)
      T == updateOverallProgress(S, 0, 1, PRELOAD_WEIGHT, 0)
      U == [T EXCEPT !.pl[b] =
              [status |-> "running", index |-> 1, completed |-> 0, results |-> <<>>,
               reported |-> <<0, 1>>,
               workers |-> [w \in 1..n |-> [pc |-> "new", i |-> 0, attempt |-> 0, sleeps |-> <<>>]]]]
  IN  startWorkers(U, b, 1, n)

\* createPreloadedImageFromElement, entry: throwIfAborted (outside its try),
\* then "await element.decode()"
createPreloadedImageFromElement(S, b, w) ==
  IF S.aborted THEN workerThrow(S, b, w)
  ELSE setWorker(S, b, w, [S.pl[b].workers[w] EXCEPT !.pc = "decode2"])

\* results.push(prepared); completed += 1; onProgress(completed / scenes.length);
\* then the loop's next turn
workerPush(S, b, w, hasBitmap) ==
  LET i == S.pl[b].workers[w].i
      item == [sceneId |-> scenes[i].id, k |-> i, hasBitmap |-> hasBitmap]
      T == [S EXCEPT !.pl[b].results = Append(@, item),
                     !.pl[b].completed = @ + 1,
                     !.pl[b].reported = <<S.pl[b].completed + 1, Len(scenes)>>,
                     !.bitmaps = IF hasBitmap THEN @ \cup {[b |-> b, k |-> i]} ELSE @]
      U == updateOverallProgress(T, T.pl[b].completed, Len(scenes), PRELOAD_WEIGHT, 0)
  IN  workerLoop(U, b, w)

\* img.onload / video.onloadeddata: the load promise resolves, "await image.decode()"
workerLoadOk(S, b, w) ==
  setWorker(S, b, w, [S.pl[b].workers[w] EXCEPT !.pc = "decode1"])

\* variant: every backoff sleep lasts the initial delay
retryDelay_constant(attempt) == INITIAL_RETRY_DELAY_MS

\* INITIAL_RETRY_DELAY_MS * Math.pow(2, attempt), in ms
retryDelay(attempt) == INITIAL_RETRY_DELAY_MS * 2^attempt

\* img.onerror / video.onerror: the attempt fails; backoff sleep (sleeps logs
\* the delays asked of setTimeout for this scene), or after the last attempt
\* the stylized fallback
workerLoadFail(S, b, w) ==
  LET wr == S.pl[b].workers[w]
  IN  IF wr.attempt < IMAGE_LOAD_RETRIES
      THEN setWorker(S, b, w, [wr EXCEPT !.pc = "backoff",
                                         !.sleeps = Append(@, retryDelay(wr.attempt))])
      ELSE setWorker(S, b, w, [wr EXCEPT !.pc = "fallback"])

\* variant: the next attempt starts without looking at the signal
workerBackoffDone_unchecked(S, b, w) ==
  setWorker(S, b, w, [S.pl[b].workers[w] EXCEPT !.pc = "loading", !.attempt = @ + 1])

\* the backoff timer fires: the next attempt starts with throwIfAborted
workerBackoffDone(S, b, w) ==
  LET wr == S.pl[b].workers[w]
  IN  IF S.aborted THEN workerThrow(S, b, w)
      ELSE setWorker(S, b, w, [wr EXCEPT !.pc = "loading", !.attempt = @ + 1])

\* image.decode() settled: throwIfAborted, return image, then
\* createPreloadedImageFromElement
workerDecoded(S, b, w) ==
  IF S.aborted THEN workerThrow(S, b, w)
  ELSE createPreloadedImageFromElement(S, b, w)

\* createStylizedFallbackImage resolved (it never looks at the signal)
workerFallbackReady(S, b, w) == createPreloadedImageFromElement(S, b, w)

\* element.decode() settled inside createPreloadedImageFromElement's try:
\* an AbortError thrown there is caught and the plain element is kept
workerElementDecoded(S, b, w) ==
  IF S.aborted THEN workerPush(S, b, w, FALSE)
  ELSE setWorker(S, b, w, [S.pl[b].workers[w] EXCEPT !.pc = "bitmap"])

\* createImageBitmap settled: a bitmap with dispose(), or on failure the element
workerBitmapDone(S, b, w, ok) == workerPush(S, b, w, ok)

\* the abort event reaches the load promises in flight: handleAbort rejects
RECURSIVE abortLoads(_, _, _)
abortLoads(S, b, w) ==
  IF w > Len(S.pl[b].workers) THEN S
  ELSE abortLoads(IF S.pl[b].workers[w].pc = "loading" THEN workerThrow(S, b, w) ELSE S,
                  b, w + 1)

(***************************************************************************)
(* generateWebMWithMediaRecorder                                           *)
(***************************************************************************)
stopStream(S) ==
  IF S.mr.stream = "live" THEN [S EXCEPT !.mr.stream = "stopped"] ELSE S

disposePreloadedImages(S) ==
  [disposeAll(S, "mr", S.mr.preloadedImages) EXCEPT !.mr.preloadedImages = <<>>]

cleanup(S) ==
  disposePreloadedImages(stopStream(
    [S EXCEPT !.mr.animationFrameId = FALSE,
              !.mr.frameTimeoutId = FALSE,
              !.mr.scheduled = "none",
              !.mr.abortHandler = FALSE,
              !.mr.cleanups = @ + 1]))

safeResolve(S) ==
  IF S.mr.settled THEN S
  ELSE orchSettle([cleanup([S EXCEPT !.mr.settled = TRUE])
                     EXCEPT !.mr.promise = "resolved"],
                  "resolved", "none")

safeReject(S, error) ==
  IF S.mr.settled THEN S
  ELSE orchSettle([cleanup([S EXCEPT !.mr.settled = TRUE])
                     EXCEPT !.mr.promise = "rejected", !.mr.error = error],
                  "rejected", error)

\* mediaRecorder.stop(): the recorder goes inactive and its stop event is queued
recorderStop(S) == [S EXCEPT !.mr.recorder = "inactive", !.mr.stopPending = TRUE]

\* "if recording, try { mediaRecorder.stop() } catch { warn }"
stopIfRecording(S, stopOk) ==
  IF S.mr.recorder = "recording" /\ stopOk THEN recorderStop(S) ELSE S

\* the catch block around the whole body
mrCatch(S, error, stopOk) ==
  safeReject(stopIfRecording(
      [S EXCEPT !.mr.aborted = IF error = "AbortError" THEN TRUE ELSE @,
                !.mr.pc = "done"], stopOk),
    error)

\* the body up to "await preloadAllImages"
mrStart(S, ctxOk, recorderApi, hw) ==
  LET T == [S EXCEPT !.orch.pc = "mr", !.orch.mrRuns = @ + 1, !.mr.pc = "setup"]
  IN  IF ~ctxOk
      THEN [safeReject(T, "ContextError") EXCEPT !.mr.pc = "done"]
      ELSE IF ~recorderApi
      THEN [safeReject(T, "UnsupportedError") EXCEPT !.mr.pc = "done"]
      ELSE preloadAllImages([T EXCEPT !.mr.pc = "preload"], "mr", hw)

scheduleNextFrame(S) ==
  IF S.mr.settled \/ S.mr.aborted \/ S.aborted THEN S
  ELSE IF S.mr.useManualFramePump
       THEN [S EXCEPT !.mr.frameTimeoutId = TRUE, !.mr.scheduled = "timeout"]
       ELSE [S EXCEPT !.mr.animationFrameId = TRUE, !.mr.scheduled = "raf"]

\* mimeTypeCandidates, in the order they are tried
mimeTypeCandidates ==
  <<[type |-> "video/webm;codecs=vp9", format |-> "webm"],
    [type |-> "video/webm;codecs=vp8", format |-> "webm"],
    [type |-> "video/webm", format |-> "webm"],
    [type |-> "video/mp4;codecs=\"avc1.42E01E, mp4a.40.2\"", format |-> "mp4"],
    [type |-> "video/mp4;codecs=\"avc1.4D401E, mp4a.40.2\"", format |-> "mp4"],
    [type |-> "video/mp4", format |-> "mp4"]>>

\* the loop over mimeTypeCandidates: the first candidate isTypeSupported
\* accepts (supportedTypes: the indices it accepts), else '' and 'webm'
chooseMimeType(supportedTypes) ==
  LET hits == {n \in DOMAIN mimeTypeCandidates : n \in supportedTypes}
  IN  IF hits = {} THEN [type |-> "", format |-> "webm"]
      ELSE mimeTypeCandidates[CHOOSE n \in hits : \A x \in hits : n <= x]

\* the code after "await preloadAllImages" resolved, to the end of the body
mrAfterPreload(S, manualPump, recorderOk, supportedTypes) ==
  LET T == updateOverallProgress(S, 1, 1, PRELOAD_WEIGHT, 0)
      U == [T EXCEPT !.mr.preloadedImages = T.pl["mr"].results, !.pl["mr"] = plDone]
      V == [U EXCEPT !.mr.renderPlan = buildRenderPlan(scenes, S.orch.config.fps, mode),
                     !.mr.stream = "live",
                     !.mr.useManualFramePump = manualPump,
                     !.mr.chosenMimeType = chooseMimeType(supportedTypes).type,
                     !.mr.chosenFormat = chooseMimeType(supportedTypes).format]
      W == [V EXCEPT !.mr.recorder = "recording",
                     !.mr.mimeReported = V.mr.chosenMimeType # "",
                     !.mr.abortHandler = TRUE,
                     !.mr.currentSceneIndex = 1,
                     !.mr.currentFrameInScene = 0,
                     !.mr.totalFramesRenderedOverall = 0,
                     !.mr.pc = "running"]
  IN  IF U.aborted THEN mrCatch(U, "AbortError", TRUE)
      ELSE IF ~recorderOk THEN mrCatch(V, "RecorderError", TRUE)
      ELSE scheduleNextFrame(W)

\* the branch of renderFrame taken when the plan is exhausted
renderFrameExhausted(S, stopOk) ==
  IF S.mr.recorder = "recording"
  THEN IF stopOk THEN recorderStop(S) ELSE safeReject(S, "RecorderError")
  ELSE IF ~S.mr.aborted THEN safeReject(S, "RecorderError")
  ELSE S

\* variant: the scene advances one frame late
renderFrameDraw_lateAdvance(S, drawOk, requestFrameOk, stopOk) ==
  LET m == S.mr
      planItem == m.renderPlan[m.currentSceneIndex]
      found == imageMapGet(m.preloadedImages, planItem.scene.id)
      drawnS == [S EXCEPT !.mr.drawn =
                   Append(@, <<m.currentSceneIndex, m.currentFrameInScene>>),
                 !.mr.drawnWith = Append(@, m.preloadedImages[found].sceneId),
                 !.mr.currentFrameInScene = @ + 1,
                 !.mr.totalFramesRenderedOverall = @ + 1]
      reported == IF totalFrames(m.renderPlan) > 0
                  THEN updateOverallProgress(drawnS,
                         drawnS.mr.totalFramesRenderedOverall, totalFrames(m.renderPlan),
                         ENCODE_WEIGHT, PRELOAD_WEIGHT)
                  ELSE drawnS
      advanced == IF reported.mr.currentFrameInScene > planItem.frameCount
                  THEN [reported EXCEPT !.mr.currentSceneIndex = @ + 1,
                                        !.mr.currentFrameInScene = 0]
                  ELSE reported
  IN  IF found = 0
      THEN safeReject(stopIfRecording(S, stopOk), "InternalError")
      ELSE IF ~drawOk
      THEN safeReject(stopIfRecording(S, stopOk), "DrawError")
      ELSE IF m.useManualFramePump /\ ~requestFrameOk
      THEN [advanced EXCEPT !.mr.frameTimeoutId = FALSE,
                            !.mr.useManualFramePump = FALSE,
                            !.mr.animationFrameId = TRUE,
                            !.mr.scheduled = "raf"]
      ELSE scheduleNextFrame(advanced)

\* renderFrame past its guards, for plan item currentSceneIndex
renderFrameDraw(S, drawOk, requestFrameOk, stopOk) ==
  LET m == S.mr
      planItem == m.renderPlan[m.currentSceneIndex]
      found == imageMapGet(m.preloadedImages, planItem.scene.id)
      drawnS == [S EXCEPT !.mr.drawn =
                   Append(@, <<m.currentSceneIndex, m.currentFrameInScene>>),
                 !.mr.drawnWith = Append(@, m.preloadedImages[found].sceneId),
                 !.mr.currentFrameInScene = @ + 1,
                 !.mr.totalFramesRenderedOverall = @ + 1]
      reported == IF totalFrames(m.renderPlan) > 0
                  THEN updateOverallProgress(drawnS,
                         drawnS.mr.totalFramesRenderedOverall, totalFrames(m.renderPlan),
                         ENCODE_WEIGHT, PRELOAD_WEIGHT)
                  ELSE drawnS
      advanced == IF reported.mr.currentFrameInScene >= planItem.frameCount
                  THEN [reported EXCEPT !.mr.currentSceneIndex = @ + 1,
                                        !.mr.currentFrameInScene = 0]
                  ELSE reported
  IN  IF found = 0
      THEN safeReject(stopIfRecording(S, stopOk), "InternalError")
      ELSE IF ~drawOk
      THEN safeReject(stopIfRecording(S, stopOk), "DrawError")
      ELSE IF m.useManualFramePump /\ ~requestFrameOk
      THEN [advanced EXCEPT !.mr.frameTimeoutId = FALSE,
                            !.mr.useManualFramePump = FALSE,
                            !.mr.animationFrameId = TRUE,
                            !.mr.scheduled = "raf"]
      ELSE scheduleNextFrame(advanced)

renderFrame(S, drawOk, requestFrameOk, stopOk) ==
  IF S.mr.settled \/ S.mr.aborted \/ S.aborted THEN S
  ELSE IF S.mr.currentSceneIndex > Len(S.mr.renderPlan)
  THEN renderFrameExhausted(S, stopOk)
  ELSE renderFrameDraw(S, drawOk, requestFrameOk, stopOk)

\* the scheduled callback runs: the setTimeout wrapper clears frameTimeoutId
timerFires(S, drawOk, requestFrameOk, stopOk) ==
  renderFrame([S EXCEPT !.mr.frameTimeoutId = IF S.mr.scheduled = "timeout"
                                              THEN FALSE ELSE @,
                        !.mr.scheduled = "none"],
              drawOk, requestFrameOk, stopOk)

\* the blob is typed chosenMimeType || 'video/webm'; the result's mimeType is
\* the blob's type, its format 'mp4' when that type contains 'mp4'
resolvedResult(chosenMimeType, chosenFormat) ==
  LET blobType == IF chosenMimeType # "" THEN chosenMimeType ELSE "video/webm"
      isMp4 == \E n \in DOMAIN mimeTypeCandidates :
                 mimeTypeCandidates[n].type = blobType /\ mimeTypeCandidates[n].format = "mp4"
  IN  [mimeType |-> blobType, format |-> IF isMp4 THEN "mp4" ELSE chosenFormat]

\* mediaRecorder.onstop
onstop(S) ==
  LET T == stopStream([S EXCEPT !.mr.stopPending = FALSE,
                                !.mr.animationFrameId = FALSE,
                                !.mr.frameTimeoutId = FALSE,
                                !.mr.scheduled = "none"])
  IN  IF T.mr.aborted THEN safeReject(T, "AbortError")
      ELSE safeResolve(
             [onProgressCallback(T, ProgressOne)
                EXCEPT !.mr.result = IF T.mr.settled THEN @
                                     ELSE resolvedResult(T.mr.chosenMimeType,
                                                         T.mr.chosenFormat)])

\* mediaRecorder.onerror; the recorder then goes inactive and fires stop
onerror(S) == recorderStop(safeReject(S, "RecorderError"))

\* abortHandler, the listener of the signal's abort event
abortHandler(S, stopOk) ==
  IF S.mr.settled \/ S.mr.aborted THEN S
  ELSE LET T == [S EXCEPT !.mr.aborted = TRUE]
       IN  IF T.mr.recorder = "recording"
           THEN IF stopOk THEN recorderStop(T) ELSE safeReject(T, "AbortError")
           ELSE safeReject(T, "AbortError")

(***************************************************************************)
(* generateVideoWithWebCodecs                                              *)
(***************************************************************************)
WEB_CODECS_WEBM_CODEC_CANDIDATES == <<"vp09.00.10.08", "vp8">>
MP4_CODEC_CANDIDATES == <<"avc1.640028", "avc1.4D4028", "avc1.42E01E">>
MP4_MIMETYPE == "video/mp4"
WEBM_MIMETYPE == "video/webm"

\* Math.max(60, Math.round(config.fps * 3))
framesBetweenYields(config) == Max(MIN_FRAMES_BETWEEN_YIELDS, config.fps * 3)

\* variant: no .catch handler, the rejection reaches the caller
wcReject_noFallback(S, error) ==
  IF S.wc.promise # "pending" THEN S
  ELSE orchSettle([S EXCEPT !.wc.promise = "rejected", !.wc.error = error],
                  "rejected", error)

\* reject(error): settles the backend's promise if it is still pending; the
\* orchestrator's .catch handler is then due (orch.pc = "fallback")
wcReject(S, error) ==
  IF S.wc.promise # "pending" THEN S
  ELSE [S EXCEPT !.wc.promise = "rejected", !.wc.error = error,
                 !.orch.pc = "fallback"]

\* resolve({ blob, mimeType: blob.type || chosenMimeType, format: chosenFormat }),
\* the blob typed by the muxer's finalizeMuxer: the orchestrator's promise
\* adopts the result
wcResolve(S) ==
  IF S.wc.promise # "pending" THEN S
  ELSE orchSettle([S EXCEPT !.wc.promise = "resolved",
                            !.wc.result = [blobType |-> IF S.wc.muxerCodec = "avc"
                                                        THEN MP4_MIMETYPE
                                                        ELSE WEBM_MIMETYPE,
                                           format |-> S.wc.chosenFormat]],
                  "resolved", "none")

\* no encoder configuration (the local does not exist)
NoEncoderConfig == [width |-> 0, bitrate |-> 0]

\* getCanvasDimensions for the '16:9' aspect ratio: the width of the canvas
canvasWidth(config) == config.maxLandscapeWidth

\* createBaseEncoderConfig: the parameters of a candidate next to its codec;
\* width stands for width and height (both forced to the canvas's size at the
\* end of the negotiation), bitrate for bitrate, framerate, latencyMode and
\* hardwareAcceleration (each kept as negotiated when it is defined)
createBaseEncoderConfig(config) ==
  [width |-> canvasWidth(config), bitrate |-> config.bitrate]

\* "{ ...candidateConfig, ...support.config, width: support.config.width ??
\* canvasWidth, ... }": every member of support.config is defined, so the
\* merged configuration is support.config
mergedEncoderConfig(candidateConfig, supportConfig) ==
  [width |-> supportConfig.width, bitrate |-> supportConfig.bitrate]

\* "encoderConfig = { ...encoderConfig, width: canvasWidth, height:
\* canvasHeight, bitrate: encoderConfig.bitrate ?? config.bitrate, ... }"
finalEncoderConfig(encoderConfig, config) ==
  [encoderConfig EXCEPT !.width = canvasWidth(config)]

\* the finally block: dispose the preloaded images, close the encoder
\* (the function returns: its locals are out of scope from here on)
wcFinally(S) ==
  [disposeAll(S, "wc", S.wc.preloadedImages)
     EXCEPT !.wc.encoder = IF @ \in {"configured", "unconfigured"} THEN "closed" ELSE @,
            !.wc.pc = "done",
            !.wc.preloadedImages = <<>>, !.wc.renderPlan = <<>>,
            !.wc.yieldSite = "none", !.wc.sceneIdx = 0, !.wc.frameIdx = 0,
            !.wc.totalFramesRenderedOverall = 0, !.wc.framesSinceLastYield = 0,
            !.wc.list = "none", !.wc.probe = 0, !.wc.encoderCodec = "none",
            !.wc.muxerCodec = "none", !.wc.chosenFormat = "none",
            !.wc.chosenMimeType = "none", !.wc.configReported = FALSE,
            !.wc.probed = <<>>, !.wc.supportConfig = NoEncoderConfig,
            !.wc.encoderConfig = NoEncoderConfig]

\* an exception reaches the catch block: reject, then finally
wcFail(S, error) == wcFinally(wcReject(S, error))

\* the body up to "await preloadAllImages"
wcStart(S, ctxOk, hw) ==
  LET T == [S EXCEPT !.orch.pc = "wc", !.orch.wcRuns = @ + 1, !.wc.pc = "setup"]
  IN  IF ~ctxOk THEN wcFail(T, "ContextError")
      ELSE preloadAllImages([T EXCEPT !.wc.pc = "preload"], "wc", hw)

\* "await encoder.flush()" is reached; flush() on a closed encoder throws
wcBeginFlush(S) ==
  IF S.wc.encoder # "configured" THEN wcFail(S, "EncoderError")
  ELSE [S EXCEPT !.wc.pc = "flush"]

\* "const frameDurationUS = Math.round(1_000_000 / config.fps)"
frameDurationUS(f) == RoundDiv(1000000, f)

\* The frame loops, from frame f of plan item s to the next await.
\* encodeThrows: the environment makes this frame's encode() throw.
RECURSIVE wcFrames(_, _, _, _)
RECURSIVE wcScenes(_, _, _)
wcFrames(S, s, f, encodeThrows) ==
  LET w == S.wc
      img == imageMapGet(w.preloadedImages, w.renderPlan[s].scene.id)
      timestamp == w.totalFramesRenderedOverall * frameDurationUS(S.orch.config.fps)
      drawnS == [S EXCEPT !.wc.drawn = Append(@, <<s, f>>),
                          !.wc.drawnWith = Append(@, w.preloadedImages[img].sceneId),
                          !.wc.timestamps = Append(@, timestamp)]
      counted == [drawnS EXCEPT !.wc.totalFramesRenderedOverall = @ + 1,
                                !.wc.framesSinceLastYield = @ + 1]
      reported == IF totalFrames(w.renderPlan) > 0
                  THEN updateOverallProgress(counted,
                         counted.wc.totalFramesRenderedOverall, totalFrames(w.renderPlan),
                         ENCODE_WEIGHT, PRELOAD_WEIGHT)
                  ELSE counted
  IN  IF f >= w.renderPlan[s].frameCount
      THEN IF w.framesSinceLastYield > 0
           THEN [S EXCEPT !.wc.pc = "yield", !.wc.yieldSite = "scene",
                          !.wc.sceneIdx = s, !.wc.frameIdx = f]
           ELSE wcScenes(S, s + 1, encodeThrows)
      ELSE IF S.aborted THEN wcFail(S, "AbortError")
      ELSE IF encodeThrows \/ w.encoder # "configured"
           THEN wcFail(drawnS, "EncoderError")
      ELSE IF reported.wc.framesSinceLastYield >= framesBetweenYields(S.orch.config)
           THEN [reported EXCEPT !.wc.pc = "yield", !.wc.yieldSite = "frame",
                                 !.wc.sceneIdx = s, !.wc.frameIdx = f + 1]
      ELSE wcFrames(reported, s, f + 1, FALSE)

wcScenes(S, s, encodeThrows) ==
  IF s > Len(S.wc.renderPlan) THEN wcBeginFlush(S)
  ELSE IF S.aborted THEN wcFail(S, "AbortError")
  ELSE IF imageMapGet(S.wc.preloadedImages, S.wc.renderPlan[s].scene.id) = 0
       THEN wcFail(S, "InternalError")
  ELSE wcFrames(S, s, 0, encodeThrows)

\* the codec negotiation is over: the encoder is created and configured with
\* encoderConfig, and the frame loop starts
wcEncoderSetup(S, configureOk, encodeThrows) ==
  LET T == [S EXCEPT !.wc.encoderConfig = finalEncoderConfig(@, S.orch.config),
                     !.wc.encoder = "configured",
                     !.wc.totalFramesRenderedOverall = 0,
                     !.wc.framesSinceLastYield = 0]
  IN  IF ~configureOk
      THEN wcFail([T EXCEPT !.wc.encoder = "unconfigured"], "EncoderError")
      ELSE wcScenes(T, 1, encodeThrows)

\* the candidate list a negotiation phase walks through
codecCandidates(list) ==
  IF list = "mp4" THEN MP4_CODEC_CANDIDATES ELSE WEB_CODECS_WEBM_CODEC_CANDIDATES

\* "encoderConfig = { ...defaultEncoderConfig }": the first WebM candidate, a
\* configuration isConfigSupported has not reported as supported
wcDefaultConfig(S, exhausted, configureOk, encodeThrows) ==
  wcEncoderSetup([S EXCEPT !.wc.encoderCodec = WEB_CODECS_WEBM_CODEC_CANDIDATES[1],
                           !.wc.encoderConfig = createBaseEncoderConfig(S.orch.config),
                           !.wc.configReported = FALSE,
                           !.wc.exhausted = exhausted],
                 configureOk, encodeThrows)

\* "if (!addVideoChunk || !finalizeMuxer)": the WebM muxer with a V_VP9 track,
\* then the first WebM probe, or the default configuration without probing
wcWebMPipeline(S, probeApi, configureOk, encodeThrows) ==
  LET T == [S EXCEPT !.wc.muxer = TRUE, !.wc.muxerCodec = "V_VP9",
                     !.wc.chosenFormat = "webm", !.wc.chosenMimeType = WEBM_MIMETYPE]
  IN  IF probeApi
      THEN [T EXCEPT !.wc.pc = "negotiate", !.wc.list = "webm", !.wc.probe = 1]
      ELSE wcDefaultConfig(T, FALSE, configureOk, encodeThrows)

\* after "await preloadAllImages" resolved: throwIfAborted, the image map,
\* the render plan, then the first "await isConfigSupported" (probeApi: the
\* VideoEncoder has an isConfigSupported function)
wcAfterPreload(S, probeApi, configureOk, encodeThrows) ==
  LET T == updateOverallProgress(S, 1, 1, PRELOAD_WEIGHT, 0)
      U == [T EXCEPT !.wc.preloadedImages = T.pl["wc"].results, !.pl["wc"] = plDone]
      V == [U EXCEPT !.wc.renderPlan = buildRenderPlan(scenes, S.orch.config.fps, mode)]
  IN  IF U.aborted THEN wcFail(U, "AbortError")
      ELSE IF mode = "download" /\ probeApi
           THEN [V EXCEPT !.wc.pc = "negotiate", !.wc.list = "mp4", !.wc.probe = 1]
      ELSE wcWebMPipeline(V, probeApi, configureOk, encodeThrows)

\* "await isConfigSupportedFn(candidateConfig)" settled for candidate
\* wc.probe of wc.list with support = [supported, config]; supported = FALSE
\* also stands for a probe that threw
wcProbeSettled(S, support, configureOk, encodeThrows) ==
  LET list == S.wc.list
      codec == codecCandidates(list)[S.wc.probe]
      last == S.wc.probe = Len(codecCandidates(list))
      supported == support.supported
      logged == [S EXCEPT !.wc.probed = Append(@, [codec |-> codec, supported |-> supported])]
      done == [logged EXCEPT !.wc.list = "none", !.wc.probe = 0,
                 !.wc.supportConfig = IF supported THEN support.config ELSE @,
                 !.wc.encoderConfig =
                   IF supported
                   THEN mergedEncoderConfig(createBaseEncoderConfig(S.orch.config),
                                            support.config)
                   ELSE @]
  IN  IF supported
      THEN IF list = "mp4"
           THEN wcEncoderSetup(
                  [done EXCEPT !.wc.muxer = TRUE, !.wc.muxerCodec = "avc",
                               !.wc.chosenFormat = "mp4",
                               !.wc.chosenMimeType = MP4_MIMETYPE,
                               !.wc.encoderCodec = codec,
                               !.wc.configReported = TRUE],
                  configureOk, encodeThrows)
           ELSE wcEncoderSetup(
                  [done EXCEPT !.wc.encoderCodec = codec, !.wc.configReported = TRUE],
                  configureOk, encodeThrows)
      ELSE IF ~last THEN [logged EXCEPT !.wc.probe = @ + 1]
      ELSE IF list = "mp4" THEN wcWebMPipeline(done, TRUE, configureOk, encodeThrows)
      ELSE wcDefaultConfig(done, TRUE, configureOk, encodeThrows)

\* yieldToEventLoop() resolved: throwIfAborted, framesSinceLastYield = 0, go on
wcAfterYield(S, encodeThrows) ==
  LET T == [S EXCEPT !.wc.framesSinceLastYield = 0]
  IN  IF S.aborted THEN wcFail(S, "AbortError")
      ELSE IF S.wc.yieldSite = "frame"
           THEN wcFrames(T, S.wc.sceneIdx, S.wc.frameIdx, encodeThrows)
      ELSE wcScenes(T, S.wc.sceneIdx + 1, encodeThrows)

\* encoder.flush() resolved: close, onProgressCallback(1), finalize, resolve
wcAfterFlush(S, finalizeOk) ==
  LET T == onProgressCallback([S EXCEPT !.wc.encoder = "closed", !.wc.flushed = TRUE],
                              ProgressOne)
  IN  IF ~finalizeOk THEN wcFail(T, "MuxerError")
      ELSE wcFinally(wcResolve(T))

\* the VideoEncoder's error callback: the encoder is closed, reject(err); a
\* pending flush() rejects with it
encoderErrorCallback(S) ==
  LET T == wcReject([S EXCEPT !.wc.encoder = "closed"], "EncoderError")
  IN  IF S.wc.pc = "flush" THEN wcFail(T, "EncoderError") ELSE T

(***************************************************************************)
(* One render call: initial state and tasks                                *)
(***************************************************************************)
MaxScenes == 2

Backends == {"wc", "mr"}

\* 0.1 s: two frames at 15 fps (preview), three at 24 fps (download)
PipelineDurations == {Tenth(1000)}

HardwareHints == {4}

PipelineScenes ==
  UNION {{[i \in 1..n |-> [id |-> i, duration |-> ds[i], footageUrl |-> us[i]]] :
            ds \in [1..n -> PipelineDurations], us \in [1..n -> {"", "url"}]} :
         n \in 0..MaxScenes}

orchIdle ==
  [pc |-> "idle", outcome |-> "pending", error |-> "none",
   config |-> [fps |-> 0, maxLandscapeWidth |-> 0, maxPortraitHeight |-> 0, bitrate |-> 0],
   wcRuns |-> 0, mrRuns |-> 0]

wcIdle ==
  [pc |-> "idle", promise |-> "pending", error |-> "none", encoder |-> "none",
   muxer |-> FALSE, flushed |-> FALSE, preloadedImages |-> <<>>, renderPlan |-> <<>>,
   yieldSite |-> "none", sceneIdx |-> 0, frameIdx |-> 0,
   totalFramesRenderedOverall |-> 0, framesSinceLastYield |-> 0, drawn |-> <<>>, drawnWith |-> <<>>,
   timestamps |-> <<>>, list |-> "none", probe |-> 0, encoderCodec |-> "none", muxerCodec |-> "none",
   chosenFormat |-> "none", chosenMimeType |-> "none", configReported |-> FALSE,
   exhausted |-> FALSE, probed |-> <<>>,
   supportConfig |-> NoEncoderConfig, encoderConfig |-> NoEncoderConfig, result |-> [blobType |-> "none", format |-> "none"]]

mrIdle ==
  [pc |-> "idle", promise |-> "pending", error |-> "none", settled |-> FALSE,
   aborted |-> FALSE, recorder |-> "none", stopPending |-> FALSE, stream |-> "none",
   frameTimeoutId |-> FALSE, animationFrameId |-> FALSE, scheduled |-> "none",
   abortHandler |-> FALSE, useManualFramePump |-> FALSE, preloadedImages |-> <<>>,
   renderPlan |-> <<>>, currentSceneIndex |-> 0, currentFrameInScene |-> 0,
   totalFramesRenderedOverall |-> 0, drawn |-> <<>>, drawnWith |-> <<>>, cleanups |-> 0,
   chosenMimeType |-> "", chosenFormat |-> "webm", mimeReported |-> FALSE,
   result |-> [mimeType |-> "none", format |-> "none"]]

progressNone == [calls |-> 0, last |-> 0, regressed |-> FALSE, outOfRange |-> FALSE]

Init ==
  /\ scenes \in PipelineScenes
  /\ mode \in {"preview", "download"}
  /\ hasWebCodecs \in BOOLEAN
  /\ hardwareConcurrency \in HardwareHints
  /\ capabilities = "allSupported"
  /\ fps = 0
  /\ plan = <<>>
  /\ planPc = "off"
  /\ signalAborted = FALSE
  /\ orch = orchIdle
  /\ wc = wcIdle
  /\ mr = mrIdle
  /\ pl = [b \in Backends |-> plIdle]
  /\ bitmaps = {}
  /\ progress = progressNone
  /\ abortPoint = "none"
  /\ accents = <<>>
  /\ ffmpeg = <<>>

\* what a capability check may answer in this run
checkAnswers == IF capabilities = "arbitrary" THEN BOOLEAN ELSE {TRUE}

\* what isConfigSupported may resolve with for a candidate: unsupported, or
\* supported with the candidate's parameters, with a smaller width or with a
\* lower bitrate
supportAnswers(candidateConfig) ==
  {[supported |-> a, config |-> candidateConfig] : a \in checkAnswers}
    \cup (IF capabilities = "arbitrary"
          THEN {[supported |-> TRUE,
                 config |-> [candidateConfig EXCEPT !.width = @ - 2]],
                [supported |-> TRUE,
                 config |-> [candidateConfig EXCEPT !.bitrate = @ \div 2]]}
          ELSE {})

\* what MediaRecorder.isTypeSupported may accept in this run
typeAnswers ==
  IF capabilities = "arbitrary" THEN SUBSET DOMAIN mimeTypeCandidates
  ELSE {DOMAIN mimeTypeCandidates}

\* a continuation is due as a microtask: it runs before any other task
MicrotaskPending ==
  \/ orch.pc = "fallback"
  \/ wc.pc = "preload" /\ pl["wc"].status \in {"resolved", "rejected"}
  \/ mr.pc = "preload" /\ pl["mr"].status \in {"resolved", "rejected"}

Same ==
  UNCHANGED <<scenes, mode, fps, plan, planPc, hasWebCodecs, hardwareConcurrency,
              capabilities, accents, ffmpeg>>

\* variant: the probe always reports the capability
hasWebCodecsSupport_always == TRUE

\* window.VideoEncoder and window.VideoFrame are functions
hasWebCodecsSupport == hasWebCodecs

\* generateWebMFromScenes up to the chosen backend's first await
generateWebMFromScenes(S, ctxOk, recorderApi, hw) ==
  LET T == [S EXCEPT !.orch.config = resolveOptimizedRenderConfig(mode, scenes)]
  IN  IF hasWebCodecsSupport
      THEN wcStart(T, ctxOk, hw)
      ELSE mrStart(T, ctxOk, recorderApi, hw)

\* generateWebMFromScenes is called
Start ==
  /\ orch.pc = "idle"
  /\ \E ctxOk \in BOOLEAN, recorderApi \in BOOLEAN :
       Commit(generateWebMFromScenes(State, ctxOk, recorderApi, hardwareConcurrency))
  /\ UNCHANGED abortPoint
  /\ Same

\* the .catch handler of generateWebMFromScenes
OrchFallback ==
  /\ orch.pc = "fallback"
  /\ \E ctxOk \in BOOLEAN, recorderApi \in BOOLEAN :
       Commit(mrStart(State, ctxOk, recorderApi, hardwareConcurrency))
  /\ UNCHANGED abortPoint
  /\ Same

\* where the call is when the abort event fires
renderPoint ==
  IF orch.pc = "idle" THEN "idle"
  ELSE IF orch.outcome # "pending" THEN "settled"
  ELSE IF orch.pc = "wc"
  THEN IF wc.pc = "yield"
       THEN IF Len(wc.drawn) < totalFrames(wc.renderPlan) THEN "midRender" ELSE "exhausted"
       ELSE wc.pc
  ELSE IF mr.pc = "running"
       THEN IF mr.stopPending THEN "stopping"
            ELSE IF Len(mr.drawn) = 0 THEN "beforeFrames"
            ELSE IF Len(mr.drawn) < totalFrames(mr.renderPlan) THEN "midRender"
            ELSE "exhausted"
       ELSE mr.pc

\* controller.abort(): signal.aborted becomes true and the abort listeners run
\* (an abort after the returned promise settled is outside the call)
Abort ==
  /\ ~signalAborted
  /\ orch.outcome = "pending"
  /\ ~MicrotaskPending
  /\ \E stopOk \in BOOLEAN :
       LET S == abortLoads(abortLoads([State EXCEPT !.aborted = TRUE], "wc", 1), "mr", 1)
       IN  Commit(IF S.mr.abortHandler THEN abortHandler(S, stopOk) ELSE S)
  /\ abortPoint' = renderPoint
  /\ Same

WorkerIn(b, w, pcs) == w \in DOMAIN pl[b].workers /\ pl[b].workers[w].pc \in pcs

LoadOk ==
  /\ ~MicrotaskPending
  /\ \E b \in Backends, w \in 1..MAX_PRELOAD_CONCURRENCY :
       WorkerIn(b, w, {"loading"}) /\ Commit(workerLoadOk(State, b, w))
  /\ UNCHANGED abortPoint
  /\ Same

LoadFail ==
  /\ ~MicrotaskPending
  /\ \E b \in Backends, w \in 1..MAX_PRELOAD_CONCURRENCY :
       WorkerIn(b, w, {"loading"}) /\ Commit(workerLoadFail(State, b, w))
  /\ UNCHANGED abortPoint
  /\ Same

BackoffDone ==
  /\ ~MicrotaskPending
  /\ \E b \in Backends, w \in 1..MAX_PRELOAD_CONCURRENCY :
       WorkerIn(b, w, {"backoff"}) /\ Commit(workerBackoffDone(State, b, w))
  /\ UNCHANGED abortPoint
  /\ Same

Decoded ==
  /\ ~MicrotaskPending
  /\ \E b \in Backends, w \in 1..MAX_PRELOAD_CONCURRENCY :
       WorkerIn(b, w, {"decode1"}) /\ Commit(workerDecoded(State, b, w))
  /\ UNCHANGED abortPoint
  /\ Same

FallbackReady ==
  /\ ~MicrotaskPending
  /\ \E b \in Backends, w \in 1..MAX_PRELOAD_CONCURRENCY :
       WorkerIn(b, w, {"fallback"}) /\ Commit(workerFallbackReady(State, b, w))
  /\ UNCHANGED abortPoint
  /\ Same

ElementDecoded ==
  /\ ~MicrotaskPending
  /\ \E b \in Backends, w \in 1..MAX_PRELOAD_CONCURRENCY :
       WorkerIn(b, w, {"decode2"}) /\ Commit(workerElementDecoded(State, b, w))
  /\ UNCHANGED abortPoint
  /\ Same

BitmapDone ==
  /\ ~MicrotaskPending
  /\ \E b \in Backends, w \in 1..MAX_PRELOAD_CONCURRENCY, ok \in BOOLEAN :
       WorkerIn(b, w, {"bitmap"}) /\ Commit(workerBitmapDone(State, b, w, ok))
  /\ UNCHANGED abortPoint
  /\ Same

\* the code after "await preloadAllImages" in generateVideoWithWebCodecs
WcPreloadSettled ==
  /\ wc.pc = "preload" /\ pl["wc"].status \in {"resolved", "rejected"}
  /\ \E probeApi \in checkAnswers, configureOk \in BOOLEAN, encodeThrows \in BOOLEAN :
       Commit(IF pl["wc"].status = "resolved"
              THEN wcAfterPreload(State, probeApi, configureOk, encodeThrows)
              ELSE wcFail(State, "AbortError"))
  /\ UNCHANGED abortPoint
  /\ Same

\* the code after "await preloadAllImages" in generateWebMWithMediaRecorder
MrPreloadSettled ==
  /\ mr.pc = "preload" /\ pl["mr"].status \in {"resolved", "rejected"}
  /\ \E manualPump \in BOOLEAN, recorderOk \in BOOLEAN, supportedTypes \in typeAnswers :
       Commit(IF pl["mr"].status = "resolved"
              THEN mrAfterPreload(State, manualPump, recorderOk, supportedTypes)
              ELSE mrCatch(State, "AbortError", TRUE))
  /\ UNCHANGED abortPoint
  /\ Same

\* an "await isConfigSupportedFn(candidateConfig)" settles
WcNegotiated ==
  /\ ~MicrotaskPending
  /\ wc.pc = "negotiate"
  /\ \E support \in supportAnswers(createBaseEncoderConfig(orch.config)),
        configureOk \in BOOLEAN, encodeThrows \in BOOLEAN :
       Commit(wcProbeSettled(State, support, configureOk, encodeThrows))
  /\ UNCHANGED abortPoint
  /\ Same

WcYieldDone ==
  /\ ~MicrotaskPending
  /\ wc.pc = "yield"
  /\ \E encodeThrows \in BOOLEAN : Commit(wcAfterYield(State, encodeThrows))
  /\ UNCHANGED abortPoint
  /\ Same

WcFlushDone ==
  /\ ~MicrotaskPending
  /\ wc.pc = "flush"
  /\ \E finalizeOk \in BOOLEAN : Commit(wcAfterFlush(State, finalizeOk))
  /\ UNCHANGED abortPoint
  /\ Same

EncoderError ==
  /\ ~MicrotaskPending
  /\ wc.pc \in {"yield", "flush"}
  /\ wc.encoder = "configured"
  /\ Commit(encoderErrorCallback(State))
  /\ UNCHANGED abortPoint
  /\ Same

MrTimer ==
  /\ ~MicrotaskPending
  /\ mr.scheduled # "none"
  /\ \E drawOk \in BOOLEAN, requestFrameOk \in BOOLEAN, stopOk \in BOOLEAN :
       Commit(timerFires(State, drawOk, requestFrameOk, stopOk))
  /\ UNCHANGED abortPoint
  /\ Same

MrOnStop ==
  /\ ~MicrotaskPending
  /\ mr.stopPending
  /\ Commit(onstop(State))
  /\ UNCHANGED abortPoint
  /\ Same

MrOnError ==
  /\ ~MicrotaskPending
  /\ mr.recorder = "recording"
  /\ Commit(onerror(State))
  /\ UNCHANGED abortPoint
  /\ Same

Next ==
  \/ Start
  \/ OrchFallback
  \/ Abort
  \/ LoadOk
  \/ LoadFail
  \/ BackoffDone
  \/ Decoded
  \/ FallbackReady
  \/ ElementDecoded
  \/ BitmapDone
  \/ WcPreloadSettled
  \/ MrPreloadSettled
  \/ WcNegotiated
  \/ WcYieldDone
  \/ WcFlushDone
  \/ EncoderError
  \/ MrTimer
  \/ MrOnStop
  \/ MrOnError

Spec == Init /\ [][Next]_vars

(***************************************************************************)
(* Negotiation runs: the same call with at most MaxNegotiationScenes       *)
(* scenes, in a browser whose capability checks may answer anything.       *)
(***************************************************************************)
MaxNegotiationScenes == 1

NegotiationInit ==
  /\ scenes \in {sc \in PipelineScenes :
                   /\ Len(sc) <= MaxNegotiationScenes
                   /\ \A i \in DOMAIN sc : sc[i].footageUrl = "url"}
  /\ mode \in {"preview", "download"}
  /\ hasWebCodecs \in BOOLEAN
  /\ hardwareConcurrency \in HardwareHints
  /\ capabilities = "arbitrary"
  /\ fps = 0
  /\ plan = <<>>
  /\ planPc = "off"
  /\ signalAborted = FALSE
  /\ orch = orchIdle
  /\ wc = wcIdle
  /\ mr = mrIdle
  /\ pl = [b \in Backends |-> plIdle]
  /\ bitmaps = {}
  /\ progress = progressNone
  /\ abortPoint = "none"
  /\ accents = <<>>
  /\ ffmpeg = <<>>

NegotiationSpec == NegotiationInit /\ [][Next]_vars

(***************************************************************************)
(* Queue runs: the same call with more scenes than preload workers (the    *)
(* pool has 2 workers for HardwareHints): the first scene has a source,    *)
(* the others have none.                                                   *)
(***************************************************************************)
QueueScenes == 3

QueueInit ==
  /\ scenes = [i \in 1..QueueScenes |->
                 [id |-> i, duration |-> Tenth(1000),
                  footageUrl |-> IF i = 1 THEN "url" ELSE ""]]
  /\ mode = "preview"
  /\ hasWebCodecs \in BOOLEAN
  /\ hardwareConcurrency \in HardwareHints
  /\ capabilities = "allSupported"
  /\ fps = 0
  /\ plan = <<>>
  /\ planPc = "off"
  /\ signalAborted = FALSE
  /\ orch = orchIdle
  /\ wc = wcIdle
  /\ mr = mrIdle
  /\ pl = [b \in Backends |-> plIdle]
  /\ bitmaps = {}
  /\ progress = progressNone
  /\ abortPoint = "none"
  /\ accents = <<>>
  /\ ffmpeg = <<>>

QueueSpec == QueueInit /\ [][Next]_vars

(***************************************************************************)
(* Plan builder runs: the inputs are drawn from bounded sets, the one      *)
(* action applies buildRenderPlan.                                         *)
(***************************************************************************)
MaxLen == 3
MaxRun == 18
MaxShortRun == 2


\* NaN/Infinity, 0, 0.005 s, 0.4 s, 2 s, 5 s, 20 s
ListDurations ==
  {NonFinite, 0, Tenth(50), Tenth(4000), Tenth(12000), Tenth(20000), Tenth(50000),
   Tenth(200000)}

\* many nearly equal scenes around the dynamic minimum
RunDurations == {Tenth(14998), Tenth(15018), Tenth(30000), Tenth(5000)}

FpsInputs == {1, 4, 15, 24}

Scene(i, d) == [id |-> i, duration |-> d, footageUrl |-> "url"]

ScenesOf(ds) == [i \in DOMAIN ds |-> Scene(i, ds[i])]

ShortLists ==
  UNION {[1..n -> ListDurations] : n \in 0..MaxLen}

RunLists ==
  {Rep(a, i) \o Rep(b, j) :
     a \in RunDurations, b \in RunDurations, i \in 1..MaxShortRun, j \in (MaxRun - 1)..MaxRun}

PlanInit ==
  /\ scenes \in {ScenesOf(ds) : ds \in ShortLists \cup RunLists}
  /\ mode \in {"preview", "download"}
  /\ fps \in FpsInputs
  /\ plan = <<>>
  /\ planPc = "input"
  /\ hasWebCodecs = FALSE
  /\ hardwareConcurrency = 0
  /\ capabilities = "allSupported"
  /\ signalAborted = FALSE
  /\ orch = <<>>
  /\ wc = <<>>
  /\ mr = <<>>
  /\ pl = <<>>
  /\ bitmaps = {}
  /\ progress = <<>>
  /\ abortPoint = "none"
  /\ accents = <<>>
  /\ ffmpeg = <<>>

\* a builder that stores the effective durations into the caller's scenes
scenesAfterBuildRenderPlan_writeBack(sc, m) ==
  [i \in DOMAIN sc |-> [sc[i] EXCEPT !.duration = computeEffectiveDurations(sc, m)[i]]]

\* the caller's scene array after a call: buildRenderPlan and
\* computeEffectiveDurations only read scenes (map, reduce, filter build new
\* arrays; clampDurationsWithMinimums writes to its own copy)
scenesAfterBuildRenderPlan(sc, m) == sc

\* buildRenderPlan(scenes, fps, mode) is called
BuildPlan ==
  /\ planPc = "input"
  /\ plan' = buildRenderPlan(scenes, fps, mode)
  /\ scenes' = scenesAfterBuildRenderPlan(scenes, mode)
  /\ planPc' = "built"
  /\ UNCHANGED <<mode, fps>>
  /\ UNCHANGED pipeVars

\* buildRenderPlan is called once more with the same arguments
BuildPlanAgain ==
  /\ planPc = "built"
  /\ plan' = buildRenderPlan(scenes, fps, mode)
  /\ scenes' = scenesAfterBuildRenderPlan(scenes, mode)
  /\ planPc' = "rebuilt"
  /\ UNCHANGED <<mode, fps>>
  /\ UNCHANGED pipeVars

PlanNext == BuildPlan \/ BuildPlanAgain

PlanSpec == PlanInit /\ [][PlanNext]_vars

(***************************************************************************)
(* Render configuration runs: mode and scene list are drawn from bounded   *)
(* sets around the frame budgets and the long-form thresholds, the one     *)
(* action applies resolveOptimizedRenderConfig.                            *)
(***************************************************************************)
MaxConfigLen == 2

\* NaN/Infinity, 0, 0.0001 s, 2 s, 60 s, 60.0001 s, 62.5 s, 100 s, 100.0001 s,
\* 125 s, 150 s, 187.5 s, 200 s, 250 s
ConfigDurations ==
  {NonFinite, 0, Tenth(1), Tenth(20000), Tenth(600000), Tenth(600001), Tenth(625000),
   Tenth(1000000), Tenth(1000001), Tenth(1250000), Tenth(1500000), Tenth(1875000),
   Tenth(2000000), Tenth(2500000)}

ConfigLists == UNION {[1..n -> ConfigDurations] : n \in 0..MaxConfigLen}

ConfigInit ==
  /\ scenes \in {ScenesOf(ds) : ds \in ConfigLists}
  /\ mode \in {"preview", "download"}
  /\ fps = 0
  /\ plan = <<>>
  /\ planPc = "config"
  /\ hasWebCodecs = FALSE
  /\ hardwareConcurrency = 0
  /\ capabilities = "allSupported"
  /\ signalAborted = FALSE
  /\ orch = orchIdle
  /\ wc = <<>>
  /\ mr = <<>>
  /\ pl = <<>>
  /\ bitmaps = {}
  /\ progress = <<>>
  /\ abortPoint = "none"
  /\ accents = <<>>
  /\ ffmpeg = <<>>

ResolveConfig ==
  /\ planPc = "config"
  /\ orch' = [orch EXCEPT !.config = resolveOptimizedRenderConfig(mode, scenes)]
  /\ planPc' = "resolved"
  /\ UNCHANGED <<scenes, mode, fps, plan, hasWebCodecs, hardwareConcurrency, capabilities,
                 signalAborted, wc, mr, pl, bitmaps, progress, abortPoint, accents, ffmpeg>>

ConfigNext == ResolveConfig

ConfigSpec == ConfigInit /\ [][ConfigNext]_vars

(***************************************************************************)
(* Fallback colour runs: createStylizedFallbackImage asks                  *)
(* computeSceneAccentColor for each scene of a list, twice over.  Strings  *)
(* are sequences of UTF-16 code units, as charCodeAt reads them.           *)
(***************************************************************************)
ACCENT_COLOR_PALETTE ==
  <<"#FF5F6D", "#FF9966", "#FDCB6E", "#54A0FF", "#5F27CD", "#48DB71", "#FF6B6B",
    "#1B9CFC", "#FF9FF3", "#10AC84">>

\* keywords.join('-')
RECURSIVE joinWithDash(_)
joinWithDash(keywords) ==
  IF keywords = <<>> THEN <<>>
  ELSE IF Len(keywords) = 1 THEN keywords[1]
  ELSE keywords[1] \o <<45>> \o joinWithDash(Tail(keywords))

\* sceneAccentHash: "hash = (hash << 5) - hash + charCode; hash |= 0" keeps
\* 31 * hash + charCode modulo 2^32; the value is held as <<high, low>>
\* 16-bit halves of its unsigned form
RECURSIVE sceneAccentHash(_)
sceneAccentHash(value) ==
  IF value = <<>> THEN <<0, 0>>
  ELSE LET h == sceneAccentHash(SubSeq(value, 1, Len(value) - 1))
           low == 31 * h[2] + value[Len(value)]
           high == 31 * h[1] + (low \div 65536)
       IN  <<high % 65536, low % 65536>>

\* Math.abs(hash) % n for the signed 32-bit value held in <<high, low>>
absHashMod(h, n) ==
  IF h[1] < 32768
  THEN ((h[1] % n) * (65536 % n) + h[2]) % n
  ELSE (((65535 - h[1]) % n) * (65536 % n) + (65536 - h[2])) % n

\* `${scene.id}|${scene.keywords?.join('-') ?? ''}|${scene.imagePrompt ?? ''}|${scene.sceneText ?? ''}`
accentKey(scene) ==
  scene.id \o <<124>> \o joinWithDash(scene.keywords) \o <<124>> \o scene.imagePrompt
    \o <<124>> \o scene.sceneText

computeSceneAccentColor(scene) ==
  ACCENT_COLOR_PALETTE[
    absHashMod(sceneAccentHash(accentKey(scene)), Len(ACCENT_COLOR_PALETTE)) + 1]

MaxAccentScenes == 2

\* scenes "1" and "2" with keywords [], ['a'] or ['a', 'b'], imagePrompt ''
\* or 'p', sceneText '' or 't'
AccentScenes ==
  [id : {<<49>>, <<50>>},
   keywords : {<<>>, <<<<97>>>>, <<<<97>>, <<98>>>>},
   imagePrompt : {<<>>, <<112>>},
   sceneText : {<<>>, <<116>>}]

AccentInit ==
  /\ scenes \in UNION {[1..n -> AccentScenes] : n \in 1..MaxAccentScenes}
  /\ mode = "preview"
  /\ fps = 0
  /\ plan = <<>>
  /\ planPc = "off"
  /\ hasWebCodecs = FALSE
  /\ hardwareConcurrency = 0
  /\ capabilities = "allSupported"
  /\ signalAborted = FALSE
  /\ orch = <<>>
  /\ wc = <<>>
  /\ mr = <<>>
  /\ pl = <<>>
  /\ bitmaps = {}
  /\ progress = <<>>
  /\ abortPoint = "none"
  /\ accents = <<>>
  /\ ffmpeg = <<>>

\* the scene the call number n is for: the list is gone through twice
accentSceneOf(n) == scenes[((n - 1) % Len(scenes)) + 1]

\* createStylizedFallbackImage(scene, ...) picks its accent colour
PickAccent ==
  /\ Len(accents) < 2 * Len(scenes)
  /\ accents' = Append(accents, computeSceneAccentColor(accentSceneOf(Len(accents) + 1)))
  /\ UNCHANGED <<scenes, mode, fps, plan, planPc, hasWebCodecs, hardwareConcurrency,
                 capabilities, signalAborted, orch, wc, mr, pl, bitmaps, progress,
                 abortPoint, ffmpeg>>

AccentNext == PickAccent

AccentSpec == AccentInit /\ [][AccentNext]_vars

(***************************************************************************)
(* Conversion runs: MaxCalls calls of convertWebMToMP4 on the module-level *)
(* ffmpegInstance and ffmpegLoadingPromise (src/unnamed/part_005).  A      *)
(* promise is named by its position in ffmpeg.promises, 0 is null.         *)
(***************************************************************************)
MaxCalls == 3

Calls == 1..MaxCalls

callIdle == [pc |-> "idle", awaits |-> 0, strategy |-> 0]

ffmpegIdle ==
  [instance |-> "null", loaded |-> FALSE, loadingPromise |-> 0, promises |-> <<>>,
   listeners |-> {}, calls |-> [c \in Calls |-> callIdle]]

\* buildConversionStrategies
conversionStrategies ==
  <<"stream copy remux", "stream copy with AAC audio", "fallback x264 transcode">>

\* getFFmpegInstance up to its await: "new FFmpeg()" if there is none, then
\* "ffmpegLoadingPromise = ffmpegLoadingPromise ?? ffmpegInstance.load()" and
\* "await ffmpegLoadingPromise" unless the instance is loaded; with a loaded
\* instance convertWebMToMP4 goes on to ffmpeg.on('progress') and writeFile
getFFmpegInstance(F, c) ==
  LET G == [F EXCEPT !.instance = "created"]
      H == IF G.loadingPromise = 0
           THEN [G EXCEPT !.promises = Append(@, "pending"),
                          !.loadingPromise = Len(G.promises) + 1]
           ELSE G
  IN  IF G.loaded THEN [G EXCEPT !.calls[c].pc = "writing", !.listeners = @ \cup {c}]
      ELSE [H EXCEPT !.calls[c].pc = "loading", !.calls[c].awaits = H.loadingPromise]

\* "await ffmpegLoadingPromise" settled: "ffmpegLoadingPromise = null" and
\* the instance is returned, or the rejection leaves getFFmpegInstance and
\* convertWebMToMP4 (its try block is not entered yet)
loadAwaited(F, c) ==
  IF F.promises[F.calls[c].awaits] = "fulfilled"
  THEN [F EXCEPT !.loadingPromise = 0, !.calls[c].pc = "writing",
                 !.calls[c].awaits = 0, !.listeners = @ \cup {c}]
  ELSE [F EXCEPT !.calls[c].pc = "rejected", !.calls[c].awaits = 0]

\* the finally block of convertWebMToMP4: ffmpeg.off('progress'), deleteFile
convertFinally(F, c) == [F EXCEPT !.listeners = @ \ {c}, !.calls[c].strategy = 0]

\* "await ffmpeg.writeFile(...)" settled
writeSettled(F, c, ok) ==
  IF ok THEN [F EXCEPT !.calls[c].pc = "exec", !.calls[c].strategy = 1]
  ELSE convertFinally([F EXCEPT !.calls[c].pc = "rejected"], c)

\* "await ffmpeg.exec(strategy.args)" and readFile settled for one strategy
execSettled(F, c, ok) ==
  IF ok THEN convertFinally([F EXCEPT !.calls[c].pc = "resolved"], c)
  ELSE IF F.calls[c].strategy < Len(conversionStrategies)
  THEN [F EXCEPT !.calls[c].strategy = @ + 1]
  ELSE convertFinally([F EXCEPT !.calls[c].pc = "rejected"], c)

\* a continuation of "await ffmpegLoadingPromise" is due as a microtask
LoadContinuationPending ==
  \E c \in Calls : ffmpeg.calls[c].pc = "loading"
                     /\ ffmpeg.promises[ffmpeg.calls[c].awaits] # "pending"

ConvertInit ==
  /\ scenes = <<>>
  /\ mode = "download"
  /\ fps = 0
  /\ plan = <<>>
  /\ planPc = "off"
  /\ hasWebCodecs = FALSE
  /\ hardwareConcurrency = 0
  /\ capabilities = "allSupported"
  /\ signalAborted = FALSE
  /\ orch = <<>>
  /\ wc = <<>>
  /\ mr = <<>>
  /\ pl = <<>>
  /\ bitmaps = {}
  /\ progress = <<>>
  /\ abortPoint = "none"
  /\ accents = <<>>
  /\ ffmpeg = ffmpegIdle

ConvertSame ==
  UNCHANGED <<scenes, mode, fps, plan, planPc, hasWebCodecs, hardwareConcurrency,
              capabilities, signalAborted, orch, wc, mr, pl, bitmaps, progress,
              abortPoint, accents>>

\* convertWebMToMP4(webmBlob, onProgress) is called
ConvertCall ==
  /\ ~LoadContinuationPending
  /\ \E c \in Calls :
       /\ ffmpeg.calls[c].pc = "idle"
       /\ ffmpeg' = getFFmpegInstance(ffmpeg, c)
  /\ ConvertSame

\* ffmpegInstance.load() settles
LoadSettled ==
  /\ \E n \in DOMAIN ffmpeg.promises, ok \in BOOLEAN :
       /\ ffmpeg.promises[n] = "pending"
       /\ ffmpeg' = [ffmpeg EXCEPT !.promises[n] = IF ok THEN "fulfilled" ELSE "rejected",
                                   !.loaded = IF ok THEN TRUE ELSE @]
  /\ ConvertSame

LoadAwaited ==
  /\ \E c \in Calls :
       /\ ffmpeg.calls[c].pc = "loading"
       /\ ffmpeg.promises[ffmpeg.calls[c].awaits] # "pending"
       /\ ffmpeg' = loadAwaited(ffmpeg, c)
  /\ ConvertSame

WriteSettled ==
  /\ ~LoadContinuationPending
  /\ \E c \in Calls, ok \in BOOLEAN :
       /\ ffmpeg.calls[c].pc = "writing"
       /\ ffmpeg' = writeSettled(ffmpeg, c, ok)
  /\ ConvertSame

ExecSettled ==
  /\ ~LoadContinuationPending
  /\ \E c \in Calls, ok \in BOOLEAN :
       /\ ffmpeg.calls[c].pc = "exec"
       /\ ffmpeg' = execSettled(ffmpeg, c, ok)
  /\ ConvertSame

ConvertNext == ConvertCall \/ LoadSettled \/ LoadAwaited \/ WriteSettled \/ ExecSettled

ConvertSpec == ConvertInit /\ [][ConvertNext]_vars

(***************************************************************************)
(* Properties of one render call                                           *)
(***************************************************************************)
\* the frames of a render plan in plan order: <<scene index, frame index>>
RECURSIVE planOrder(_, _)
planOrder(renderPlan, s) ==
  IF s > Len(renderPlan) THEN <<>>
  ELSE [f \in 1..renderPlan[s].frameCount |-> <<s, f - 1>>] \o planOrder(renderPlan, s + 1)

IsPrefix(a, b) == Len(a) <= Len(b) /\ \A i \in 1..Len(a) : a[i] = b[i]

\* the plan both backends build from the call's scenes, config and mode
callPlan == buildRenderPlan(scenes, orch.config.fps, mode)
callOrder == planOrder(callPlan, 1)

renderSettled == orch.outcome # "pending"
rejectedWithAbort == orch.outcome = "rejected" /\ orch.error = "AbortError"

\* the signal was aborted after the call started and before its promise settled
abortedDuringCall == signalAborted /\ abortPoint \notin {"none", "idle", "settled"}

\* C1: once the signal was aborted before the returned promise settled, the
\* promise settles only by rejecting with AbortError: never a blob, never an
\* error of another kind.
C1_AbortAlwaysRejectsWithAbortError ==
  (abortedDuringCall /\ renderSettled) => rejectedWithAbort

\* C2: when the render promise settles, every ImageBitmap created during the
\* call has been disposed.
C2_AllBitmapsDisposedAtSettle ==
  renderSettled => bitmaps = {}

\* C3: with WebCodecs present, once the WebCodecs backend has failed the
\* fallback backend runs exactly once, on the same scenes and config, and the
\* call's outcome and error are the fallback's; no backend runs twice.
C3_FallbackOnceAndOutcomeAdopted ==
  /\ orch.wcRuns <= 1 /\ orch.mrRuns <= 1
  /\ (hasWebCodecs /\ orch.pc # "idle") => orch.wcRuns = 1
  /\ (hasWebCodecs /\ wc.promise = "pending") => (orch.mrRuns = 0 /\ ~renderSettled)
  /\ (hasWebCodecs /\ wc.promise = "resolved") => (orch.mrRuns = 0 /\ orch.outcome = "resolved")
  /\ (hasWebCodecs /\ wc.promise = "rejected" /\ orch.pc # "fallback") =>
       /\ orch.mrRuns = 1
       /\ orch.outcome = mr.promise
       /\ orch.error = mr.error
       /\ mr.renderPlan \in {<<>>, callPlan}

C3_Witness ==
  /\ hasWebCodecs /\ wc.promise = "rejected" /\ wc.error = "EncoderError"
  /\ Len(wc.drawn) > 0
  /\ orch.mrRuns = 1 /\ orch.outcome = "resolved" /\ mr.promise = "resolved"

\* C4: the values passed to the progress callback never decrease and all lie
\* in [0, 1], fallback included.
C4_ProgressMonotoneInUnitInterval ==
  ~progress.regressed /\ ~progress.outOfRange

\* C5: after an abort that arrives when some but not all frames are drawn,
\* the render promise settles only by rejecting with AbortError, with the
\* capture stream's tracks stopped by then, and no further frame is drawn.
C5_MidRenderAbort ==
  /\ [](abortPoint = "midRender" /\ renderSettled =>
          rejectedWithAbort /\ mr.stream # "live")
  /\ [][abortPoint = "midRender" => (wc.drawn' = wc.drawn /\ mr.drawn' = mr.drawn)]_vars

\* C6: both backends draw in strict plan order (what is drawn is always a
\* prefix of the plan's frame order), and the encoder is flushed, the
\* recorder stopped for completion and either promise resolved only when
\* exactly frameCount frames of every plan item have been drawn.
C6_FramesInPlanOrder ==
  /\ IsPrefix(wc.drawn, callOrder)
  /\ IsPrefix(mr.drawn, callOrder)
  /\ (wc.pc = "flush" \/ wc.flushed \/ wc.promise = "resolved") =>
       (wc.drawn = callOrder /\ Len(wc.drawn) = totalFrames(callPlan))
  /\ mr.promise = "resolved" =>
       (mr.drawn = callOrder /\ Len(mr.drawn) = totalFrames(callPlan))

C6_Witness ==
  /\ Len(scenes) = MaxScenes
  /\ \/ wc.promise = "resolved" /\ Len(wc.drawn) > Len(scenes)
     \/ mr.promise = "resolved" /\ Len(mr.drawn) > Len(scenes)

\* helpers for the plan claims
rawDurations == [i \in DOMAIN scenes |-> scenes[i].duration]
positiveRaw == {i \in DOMAIN scenes : sanitiseDuration(scenes[i].duration) > 0}
sumPositiveRaw == SumSeq([i \in DOMAIN scenes |-> sanitiseDuration(scenes[i].duration)])
effective == computeEffectiveDurations(scenes, mode)

planDurationsOfPositive ==
  [i \in DOMAIN plan |-> IF i \in positiveRaw THEN plan[i].durationSeconds ELSE 0]

PreviewCompressed ==
  planPc = "built" /\ mode = "preview"
    /\ sumPositiveRaw > PREVIEW_MAX_TOTAL_DURATION_SECONDS

\* C7: in preview mode, when the positive durations sum to more than the
\* 15 s cap, the effective durations sum to at most 15 s + 0.001 s and every
\* positive-duration scene keeps at least min(0.75 s, 15 s / positive count).
C7_SumWithinEpsilonAboveMinimum ==
  PreviewCompressed =>
    /\ SumSeq(planDurationsOfPositive) <= PREVIEW_MAX_TOTAL_DURATION_SECONDS + epsilon
    /\ \A i \in positiveRaw :
         plan[i].durationSeconds >= dynamicMinimum([j \in DOMAIN scenes |->
                                       sanitiseDuration(scenes[j].duration)])

\* C8 as stated: in preview mode, when every duration is positive and the
\* durations sum to at most the 15 s cap, every plan item keeps its scene's
\* raw duration.
C8_UnderCapUnchanged ==
  (planPc = "built" /\ mode = "preview"
     /\ (\A i \in DOMAIN scenes : scenes[i].duration > 0)
     /\ sumPositiveRaw <= PREVIEW_MAX_TOTAL_DURATION_SECONDS)
  => \A i \in DOMAIN scenes : plan[i].durationSeconds = scenes[i].duration

\* C8 amended: the same, for scene lists whose durations all exceed 0.01 s
\* (a duration of at most 0.01 s is replaced by the 0.75 s fallback).
C8_UnderCapAboveNearZeroUnchanged ==
  (planPc = "built" /\ mode = "preview"
     /\ (\A i \in DOMAIN scenes : scenes[i].duration > NEAR_ZERO_DURATION)
     /\ sumPositiveRaw <= PREVIEW_MAX_TOTAL_DURATION_SECONDS)
  => \A i \in DOMAIN scenes : plan[i].durationSeconds = scenes[i].duration

C8_Witness ==
  /\ planPc = "built" /\ mode = "preview" /\ Len(scenes) = 3
  /\ \A i \in DOMAIN scenes : scenes[i].duration > NEAR_ZERO_DURATION
  /\ scenes[1].duration # scenes[2].duration
  /\ sumPositiveRaw <= PREVIEW_MAX_TOTAL_DURATION_SECONDS
  /\ \A i \in DOMAIN scenes : plan[i].durationSeconds = scenes[i].duration

\* C9: every plan item's frameCount is max(1, ceil(durationSeconds * fps)) of
\* its own durationSeconds, i.e. the least n >= 1 with n >= durationSeconds * fps;
\* a single 5 s scene in download mode at 24 fps gives one item of 120 frames.
C9_FrameCountIsCeil ==
  planPc = "built" =>
    /\ Len(plan) = Len(scenes)
    /\ \A i \in DOMAIN plan :
         LET n == plan[i].frameCount
             df == plan[i].durationSeconds * fps
         IN  /\ n >= 1
             /\ n * UnitsPerSecond >= df
             /\ n > 1 => (n - 1) * UnitsPerSecond < df
    /\ (mode = "download" /\ fps = 24 /\ rawDurations = <<Tenth(50000)>>)
         => (Len(plan) = 1 /\ plan[1].frameCount = 120)

C9_Witness ==
  /\ planPc = "built" /\ mode = "download" /\ fps = 24
  /\ rawDurations = <<Tenth(50000)>>
  /\ Len(plan) = 1 /\ plan[1].frameCount = 120

\* C10: when the capability probe reports WebCodecs unavailable, the
\* WebCodecs backend is never entered (no encoder, no muxer) and the
\* MediaRecorder backend runs exactly once.
C10_NoWebCodecsOnlyFallbackOnce ==
  ~hasWebCodecs =>
    /\ orch.wcRuns = 0 /\ wc = wcIdle /\ pl["wc"] = plIdle
    /\ orch.mrRuns = (IF orch.pc = "idle" THEN 0 ELSE 1)

C10_Witness ==
  ~hasWebCodecs /\ orch.mrRuns = 1 /\ orch.outcome = "resolved" /\ Len(mr.drawn) > 0

\* the workers of both preload runs that hold a scene with a source
urlWorkers ==
  {bw \in Backends \X (1..MAX_PRELOAD_CONCURRENCY) :
     /\ bw[2] \in DOMAIN pl[bw[1]].workers
     /\ pl[bw[1]].workers[bw[2]].i > 0
     /\ scenes[pl[bw[1]].workers[bw[2]].i].footageUrl # ""}

workerOf(bw) == pl[bw[1]].workers[bw[2]]

backoffPlan == <<300, 600>>

\* C11: for a scene with a source, load attempt number k+1 starts after
\* exactly the first k sleeps of <<300 ms, 600 ms>>; the synthetic fallback
\* replaces the source only after 3 failed attempts and those two sleeps, with
\* no sleep after the third; a preload that resolves holds an asset for every
\* scene, and without an abort a preload never rejects.
C11_ThreeAttemptsThenFallback ==
  /\ \A bw \in urlWorkers :
       LET wr == workerOf(bw)
       IN  /\ wr.attempt \in 0..2
           /\ wr.pc \in {"loading", "decode1"} => wr.sleeps = SubSeq(backoffPlan, 1, wr.attempt)
           /\ wr.pc = "backoff" =>
                (wr.attempt < 2 /\ wr.sleeps = SubSeq(backoffPlan, 1, wr.attempt + 1))
           /\ wr.pc = "fallback" => (wr.attempt = 2 /\ wr.sleeps = backoffPlan)
  /\ \A b \in Backends :
       /\ pl[b].status = "resolved" =>
            \A i \in DOMAIN scenes :
              \E n \in DOMAIN pl[b].results : pl[b].results[n].k = i
       /\ ~signalAborted => pl[b].status # "rejected"
       /\ (~signalAborted /\ renderSettled /\ orch.outcome = "rejected") =>
            orch.error \in {"ContextError", "UnsupportedError", "RecorderError",
                            "DrawError", "EncoderError", "MuxerError"}

C11_Witness ==
  \E bw \in urlWorkers :
    /\ workerOf(bw).pc \in {"decode2", "bitmap"}
    /\ workerOf(bw).attempt = 2
    /\ workerOf(bw).sleeps = backoffPlan
    /\ ~signalAborted

\* every WebCodecs candidate was probed and reported unsupported
wcAllUnsupported == wc.exhausted

\* MediaRecorder.isTypeSupported accepted none of mimeTypeCandidates
mrAllUnsupported == mr.recorder # "none" /\ ~mr.mimeReported

\* C12: when every codec candidate was reported unsupported no VideoEncoder
\* is configured, when every mimetype was reported unsupported no
\* MediaRecorder is constructed, and a call in which both happened rejects
\* with a configuration error.
C12_NothingSupportedRejects ==
  /\ wcAllUnsupported => wc.encoder # "configured"
  /\ ~mrAllUnsupported
  /\ (renderSettled /\ wcAllUnsupported /\ mrAllUnsupported) =>
       (orch.outcome = "rejected" /\ orch.error = "ConfigurationError")

\* C13: a backend that cannot get its 2D context rejects the render call with
\* that error and nothing more is started: after the WebCodecs backend failed
\* on its context the fallback backend never runs and the call does not
\* resolve; after the MediaRecorder backend failed on its context the call
\* is rejected with that error and no preload was started for it.
C13_ContextFailureIsFatal ==
  /\ wc.error = "ContextError" =>
       /\ orch.mrRuns = 0
       /\ orch.outcome # "resolved"
       /\ orch.outcome = "rejected" => orch.error = "ContextError"
  /\ mr.error = "ContextError" =>
       /\ orch.outcome = "rejected" /\ orch.error = "ContextError"
       /\ pl["mr"] = plIdle

\* the codec family a codec string names: the part before the first "."
codecFamily(codec) ==
  IF \E n \in DOMAIN MP4_CODEC_CANDIDATES : MP4_CODEC_CANDIDATES[n] = codec THEN "avc1"
  ELSE IF codec = "vp09.00.10.08" THEN "vp09"
  ELSE codec

\* the codec family a muxer's video track declares
trackFamily(muxerCodec) ==
  IF muxerCodec = "avc" THEN "avc1" ELSE IF muxerCodec = "V_VP9" THEN "vp09" ELSE "none"

\* the container a muxer writes
containerOf(muxerCodec) ==
  IF muxerCodec = "avc" THEN [mimeType |-> "video/mp4", format |-> "mp4"]
  ELSE [mimeType |-> "video/webm", format |-> "webm"]

\* C14: while the WebCodecs encoder is configured, the muxer's track declares
\* the codec family of the encoder's codec, and the format and mimeType the
\* backend will report are the muxer's container.
C14_MuxerMatchesEncoder ==
  wc.encoder = "configured" =>
    /\ trackFamily(wc.muxerCodec) = codecFamily(wc.encoderCodec)
    /\ wc.chosenFormat = containerOf(wc.muxerCodec).format
    /\ wc.chosenMimeType = containerOf(wc.muxerCodec).mimeType

\* the mode's frame budget and bitrate floor
frameBudgetOf(m) == IF m = "download" THEN DOWNLOAD_FRAME_BUDGET ELSE PREVIEW_FRAME_BUDGET
bitrateFloorOf(m) == IF m = "download" THEN MIN_DOWNLOAD_BITRATE ELSE MIN_PREVIEW_BITRATE

\* totalDuration * baseFps exceeds the mode's frame budget
overFrameBudget ==
  computeTotalSceneDurationSeconds(scenes) * getRenderConfig(mode).fps
    > frameBudgetOf(mode) * UnitsPerSecond

\* C15: the resolved configuration has 4 <= fps <= base fps, a bitrate
\* between the mode's floor and the base bitrate, size limits of at most the
\* base limits, and an fps below the base fps only when totalDuration * base
\* fps exceeds the mode's frame budget.
C15_ConfigWithinBaseAndFloors ==
  planPc = "resolved" =>
    LET base == getRenderConfig(mode)
        cfg == orch.config
    IN  /\ MIN_EFFECTIVE_FPS <= cfg.fps /\ cfg.fps <= base.fps
        /\ bitrateFloorOf(mode) <= cfg.bitrate /\ cfg.bitrate <= base.bitrate
        /\ cfg.maxLandscapeWidth <= base.maxLandscapeWidth
        /\ cfg.maxPortraitHeight <= base.maxPortraitHeight
        /\ cfg.fps < base.fps => overFrameBudget

C15_Witness ==
  /\ planPc = "resolved"
  /\ overFrameBudget
  /\ orch.config.fps < getRenderConfig(mode).fps
  /\ orch.config.bitrate < getRenderConfig(mode).bitrate
  /\ orch.config.maxLandscapeWidth < getRenderConfig(mode).maxLandscapeWidth

C17_AccentIsFunctionOfId ==
  \A i \in DOMAIN accents : \A j \in DOMAIN accents :
    accentSceneOf(i).id = accentSceneOf(j).id => accents[i] = accents[j]

\* the part that concerns one scene: both runs pick the same entry
C17_SameSceneSameAccent ==
  \A i \in DOMAIN accents : \A j \in DOMAIN accents :
    accentSceneOf(i) = accentSceneOf(j) => accents[i] = accents[j]

\* the scenario's input: 2 s, 20 s, 2 s in preview mode at 15 fps
scenarioDurations == <<Tenth(20000), Tenth(200000), Tenth(20000)>>

scenarioBuilt ==
  /\ planPc = "built" /\ mode = "preview" /\ fps = 15
  /\ [i \in DOMAIN scenes |-> scenes[i].duration] = scenarioDurations

\* C18: for 2 s, 20 s, 2 s in preview mode at 15 fps the plan's durations
\* are 1.25 s, 12.5 s, 1.25 s: they sum to the 15 s cap, each is at least
\* the minimum 0.75 s, and the second item has 188 frames, which is both
\* ceil(12.5 * 15) and round(12.5 * 15).
C18_PreviewScenario ==
  scenarioBuilt =>
    /\ [i \in DOMAIN plan |-> plan[i].durationSeconds]
         = <<Tenth(12500), Tenth(125000), Tenth(12500)>>
    /\ SumSeq([i \in DOMAIN plan |-> plan[i].durationSeconds])
         = PREVIEW_MAX_TOTAL_DURATION_SECONDS
    /\ \A i \in DOMAIN plan : plan[i].durationSeconds >= PREVIEW_MIN_SCENE_DURATION_SECONDS
    /\ dynamicMinimum(scenarioDurations) = PREVIEW_MIN_SCENE_DURATION_SECONDS
    /\ plan[2].frameCount = 188
    /\ CeilDiv(plan[2].durationSeconds * fps, UnitsPerSecond) = 188
    /\ RoundDiv(plan[2].durationSeconds * fps, UnitsPerSecond) = 188

C18_Witness == scenarioBuilt /\ Len(plan) = 3

\* the WebCodecs backend's promise was rejected with AbortError
wcAborted == wc.promise = "rejected" /\ wc.error = "AbortError"

\* C19: once the WebCodecs backend rejected with AbortError the orchestrator
\* starts nothing: the fallback backend never runs, no preload is started for
\* it, and no progress callback is made from then on.
C19_NoWorkAfterWebCodecsAbort ==
  /\ [](wcAborted => (orch.mrRuns = 0 /\ mr = mrIdle /\ pl["mr"] = plIdle))
  /\ [][wcAborted => progress' = progress]_vars

\* the preloadAllImages runs that have not resolved
unresolvedPreloads == {b \in Backends : pl[b].status \in {"idle", "running", "rejected"}}

\* C20: with the signal aborted a preloadAllImages run never resolves; it
\* rejects only because of the abort (its rejection is the AbortError a worker
\* threw, which the backend passes on), and is rejected as soon as no worker
\* is left waiting; from then on no worker starts a load attempt, starts a
\* backoff sleep or advances the shared index.
C20_AbortShortCircuitsPreload ==
  /\ [](\A b \in Backends :
          /\ pl[b].status = "rejected" =>
               (signalAborted /\ \E w \in DOMAIN pl[b].workers : pl[b].workers[w].pc = "threw")
          /\ (signalAborted /\ pl[b].status = "running") =>
               \E w \in DOMAIN pl[b].workers :
                 pl[b].workers[w].pc \notin {"threw", "returned", "loading"})
  /\ [][signalAborted =>
          \A b \in unresolvedPreloads :
            /\ pl'[b].status # "resolved"
            /\ pl'[b].index = pl[b].index
            /\ \A w \in DOMAIN pl'[b].workers :
                 pl'[b].workers[w].pc \in {"loading", "backoff"} =>
                   (w \in DOMAIN pl[b].workers /\ pl'[b].workers[w] = pl[b].workers[w])]_vars

C20_Witness ==
  /\ signalAborted /\ abortPoint = "preload"
  /\ \E b \in Backends :
       /\ pl[b].status = "rejected"
       /\ pl[b].index <= Len(scenes)
       /\ \E w \in DOMAIN pl[b].workers : pl[b].workers[w].pc = "threw"
       /\ \E w \in DOMAIN pl[b].workers : pl[b].workers[w].pc = "backoff"

\* clamp(2, 6, floor(hint / 2)), 4 without a hint
poolWidth(hw) ==
  IF hw = 0 THEN 4
  ELSE IF hw \div 2 < 2 THEN 2 ELSE IF hw \div 2 > 6 THEN 6 ELSE hw \div 2

\* the workers of a preload run that hold a scene, and the scenes they hold
busyWorkers(b) == {w \in DOMAIN pl[b].workers : pl[b].workers[w].i > 0}
heldScenes(b) == {pl[b].workers[w].i : w \in busyWorkers(b)}
storedScenes(b) == {pl[b].results[n].k : n \in DOMAIN pl[b].results}

\* C21: a preload run never has more scenes in work than the pool width; a
\* scene index is held by one worker at a time and stored once, and while no
\* worker has thrown the indices taken so far are exactly those held or
\* stored; the progress reported is completed/total; a resolved run holds
\* exactly one asset per scene and a returned run has reported 1.
C21_BoundedPoolOneWorkerPerScene ==
  /\ \A hw \in 0..16 : resolvePreloadConcurrency(hw) = poolWidth(hw)
  /\ \A b \in Backends :
       LET r == pl[b]
       IN  /\ Len(r.workers) <= poolWidth(hardwareConcurrency)
           /\ Cardinality(busyWorkers(b)) <= poolWidth(hardwareConcurrency)
           /\ \A v \in busyWorkers(b) : \A w \in busyWorkers(b) :
                 r.workers[v].i = r.workers[w].i => v = w
           /\ heldScenes(b) \cap storedScenes(b) = {}
           /\ Cardinality(storedScenes(b)) = Len(r.results)
           /\ r.completed = Len(r.results)
           /\ (r.status \in {"running", "resolved"}
                /\ \A w \in DOMAIN r.workers : r.workers[w].pc # "threw") =>
                 heldScenes(b) \cup storedScenes(b)
                   = {i \in DOMAIN scenes : i < r.index}
           /\ r.status \in {"running", "resolved", "rejected"} =>
                 r.reported = (IF r.completed = 0 THEN <<0, 1>>
                               ELSE <<r.completed, Len(scenes)>>)
           /\ r.status = "resolved" =>
                 (storedScenes(b) = DOMAIN scenes /\ Len(r.results) = Len(scenes))
           /\ r.status = "returned" => r.reported = <<1, 1>>

C21_Witness ==
  \E b \in Backends :
    /\ pl[b].status = "running"
    /\ Len(scenes) > Len(pl[b].workers)
    /\ Cardinality(busyWorkers(b)) = Len(pl[b].workers)
    /\ pl[b].completed = 1
    /\ pl[b].index > Len(scenes)

\* the MediaRecorder backend has been started
fallbackBegun == orch.mrRuns > 0

\* generateVideoWithWebCodecs is not running: never called, or its finally
\* block has closed the encoder and disposed its bitmaps
wcReleased ==
  /\ wc.pc \in {"idle", "done"}
  /\ wc.encoder # "configured"
  /\ \A x \in bitmaps : x.b # "wc"

\* C22: from the start of the fallback backend on, the WebCodecs backend has
\* returned with its encoder closed and its bitmaps disposed, and it draws
\* no further frame.
C22_OneBackendActive ==
  /\ [](fallbackBegun => wcReleased)
  /\ [][fallbackBegun => wc.drawn' = wc.drawn]_vars

\* C23: whatever order the preload workers complete in, every frame of plan
\* item i is drawn with the asset whose sceneId is plan item i's scene id
\* (the scene ids of a call are distinct); the lookup that fails a render
\* with the internal error never misses, since a preload that returned holds
\* one asset per scene, so no render ends with that error.
sceneIdsDistinct == \A i, j \in DOMAIN scenes : scenes[i].id = scenes[j].id => i = j
drawnWithOwnAsset(drawn, drawnWith) ==
  /\ Len(drawnWith) = Len(drawn)
  /\ \A n \in DOMAIN drawn : drawnWith[n] = callPlan[drawn[n][1]].scene.id
C23_FramesUseOwnAsset ==
  sceneIdsDistinct =>
    /\ drawnWithOwnAsset(wc.drawn, wc.drawnWith)
    /\ drawnWithOwnAsset(mr.drawn, mr.drawnWith)
    /\ wc.error # "InternalError"
    /\ mr.error # "InternalError"

\* the second scene's asset completed first, and every frame has been drawn
completedOutOfOrder(images) == Len(images) = 2 /\ images[1].sceneId = scenes[2].id
C23_Witness ==
  /\ Len(scenes) = 2
  /\ \/ completedOutOfOrder(wc.preloadedImages) /\ wc.pc = "flush"
        /\ Len(wc.drawn) = totalFrames(callPlan)
     \/ completedOutOfOrder(mr.preloadedImages) /\ mr.promise = "pending"
        /\ Len(mr.drawn) = totalFrames(callPlan)

\* C24: a plan item whose effective duration is approximately zero
\* (non-finite, non-positive or at most 0.01 s) gets the fallback minimum
\* duration: max(1.2 s, 1/fps) in download mode, and one frame's worth
\* (1/fps, hence frameCount 1) in preview mode.
approximatelyZero(i) == computeEffectiveDurations(scenes, mode)[i] <= NEAR_ZERO_DURATION
C24_NearZeroFallback ==
  planPc = "built" =>
    \A i \in DOMAIN scenes :
      approximatelyZero(i) =>
        IF mode = "download"
        THEN plan[i].durationSeconds = Max(DOWNLOAD_FALLBACK_DURATION, UnitsPerSecond \div fps)
        ELSE /\ plan[i].durationSeconds = UnitsPerSecond \div fps
             /\ plan[i].frameCount = 1

\* C25: in the WebCodecs backend the codec candidates are probed in list
\* order and the first one reported as supported is the one configured, with
\* every corrected parameter the check returned adopted in the encoder
\* configuration; download mode probes the MP4 candidates before the WebM
\* candidates and uses WebM only when no MP4 candidate is supported; preview
\* mode never selects MP4.
probeOrder ==
  (IF mode = "download" THEN MP4_CODEC_CANDIDATES ELSE <<>>)
    \o WEB_CODECS_WEBM_CODEC_CANDIDATES
probedCodecs == [n \in DOMAIN wc.probed |-> wc.probed[n].codec]
lastProbe == wc.probed[Len(wc.probed)]
isMp4Codec(codec) == \E n \in DOMAIN MP4_CODEC_CANDIDATES : MP4_CODEC_CANDIDATES[n] = codec
C25_FirstSupportedAdopted ==
  /\ IsPrefix(probedCodecs, probeOrder)
  /\ \A n \in DOMAIN wc.probed : wc.probed[n].supported => n = Len(wc.probed)
  /\ wc.configReported =>
       /\ wc.probed # <<>> /\ lastProbe.supported
       /\ wc.encoderCodec = lastProbe.codec
       /\ wc.encoder = "configured" => wc.encoderConfig = wc.supportConfig
  /\ wc.chosenFormat = "mp4" <=> (wc.configReported /\ isMp4Codec(wc.encoderCodec))
  /\ wc.chosenFormat = "webm" /\ wc.probed # <<>> /\ mode = "download" =>
       \A n \in DOMAIN MP4_CODEC_CANDIDATES :
          n \in DOMAIN wc.probed /\ ~wc.probed[n].supported
  /\ mode = "preview" => wc.chosenFormat # "mp4"

\* C26: the k-th frame handed to the encoder (k counted from 0 over the whole
\* plan) carries the timestamp k * (1000000 / fps) microseconds, to the
\* nearest microsecond; the timestamps are strictly increasing and do not
\* drift from the nominal frame times.
nominalTimestamp(k, f) == RoundDiv(k * 1000000, f)
C26_TimestampsAreNominal ==
  /\ \A n \in DOMAIN wc.timestamps :
       wc.timestamps[n] = nominalTimestamp(n - 1, orch.config.fps)
  /\ \A n \in DOMAIN wc.timestamps :
       n > 1 => wc.timestamps[n - 1] < wc.timestamps[n]

\* C27: the redistribution loop of clampDurationsWithMinimums ends after at
\* most n + 1 passes for n scenes (never because of the 1000-iteration
\* bound), and it ends with the excess above the cap at most epsilon or with
\* no scene having more than epsilon of slack above its minimum; a pass
\* deducts only from scenes that still have slack and takes no scene below
\* its minimum.
sanitisedRaw == [i \in DOMAIN scenes |-> sanitiseDuration(scenes[i].duration)]
clampMinimums == [i \in DOMAIN scenes |->
                    IF sanitisedRaw[i] > 0 THEN dynamicMinimum(sanitisedRaw) ELSE 0]
clampInput ==
  LET minimums == clampMinimums
      sanitised == sanitisedRaw
      total == SumSeq(sanitised)
  IN  [i \in DOMAIN scenes |->
         IF minimums[i] = 0 THEN 0
         ELSE Max(minimums[i],
                  MulDiv(sanitised[i], PREVIEW_MAX_TOTAL_DURATION_SECONDS, total))]
clampRun ==
  LET input == clampInput
  IN  clampLoop(input, clampMinimums, SumSeq(input), PREVIEW_MAX_TOTAL_DURATION_SECONDS, 0)
loopEntered == PreviewCompressed /\ SumSeq(clampInput) > PREVIEW_MAX_TOTAL_DURATION_SECONDS
C27_ClampLoopTerminates ==
  loopEntered =>
    LET run == clampRun
        minimums == clampMinimums
        passes == Len(run.passes) - 1
    IN  /\ passes <= Len(scenes) + 1
        /\ run.iterations < MAX_CLAMP_ITERATIONS
        /\ \/ run.total - PREVIEW_MAX_TOTAL_DURATION_SECONDS <= epsilon
           \/ adjustableIndices(run.adjusted, minimums) = {}
        /\ \A p \in 1..passes :
             LET before == run.passes[p]
                 after == run.passes[p + 1]
                 adjustable == adjustableIndices(before, minimums)
             IN  \A i \in DOMAIN scenes :
                   /\ after[i] <= before[i]
                   /\ after[i] >= minimums[i]
                   /\ after[i] < before[i] => i \in adjustable

\* two passes: the first takes one scene down to its minimum, the second
\* takes the rest of the excess from another scene
C27_Witness ==
  loopEntered /\
    LET run == clampRun
        minimums == clampMinimums
    IN  /\ run.iterations = 2
        /\ \E i \in DOMAIN scenes :
             run.passes[1][i] > minimums[i] /\ run.passes[2][i] = minimums[i]
        /\ run.total - PREVIEW_MAX_TOTAL_DURATION_SECONDS <= epsilon

\* C29: preview compression neither reorders nor inflates: for positive raw
\* durations d_i <= d_j the effective durations satisfy e_i <= e_j + epsilon,
\* and every effective duration is at most max(d_i, dynamic minimum).
C29_CompressionKeepsOrder ==
  (planPc = "built" /\ mode = "preview") =>
    LET e == effective
        d == sanitisedRaw
        minimum == dynamicMinimum(d)
    IN  /\ \A i, j \in positiveRaw : d[i] <= d[j] => e[i] <= e[j] + epsilon
        /\ \A i \in positiveRaw : e[i] <= Max(d[i], minimum)

\* a compressed list with a scene lifted to the minimum, a scene shortened,
\* and two scenes of different raw durations both above the minimum
C29_Witness ==
  PreviewCompressed /\
    LET e == effective
        d == sanitisedRaw
        minimum == dynamicMinimum(d)
    IN  /\ \E i \in positiveRaw : d[i] < minimum /\ e[i] = minimum
        /\ \E i, j \in positiveRaw :
             d[i] < d[j] /\ minimum < e[i] /\ e[i] < e[j] /\ e[j] < d[j]

\* C28: the MediaRecorder backend's promise is settled at most once and
\* cleanup() runs exactly once, at that moment; after settlement no frame is
\* drawn, no timer or animation-frame callback is scheduled, and the late
\* events (recorder stop, recorder error, signal abort) change neither the
\* outcome nor anything the backend has produced: its result, its released
\* resources, the call's outcome, the progress reported to the caller.
mrOutcome == <<mr.settled, mr.promise, mr.error, mr.result, orch.outcome, orch.error>>
mrResources ==
  <<mr.cleanups, mr.stream, mr.scheduled, mr.frameTimeoutId, mr.animationFrameId,
    mr.abortHandler, mr.preloadedImages, {x \in bitmaps : x.b = "mr"}>>
lateOnStop == mr.settled /\ mr.stopPending /\ ~mr.stopPending'
lateOnError == mr.settled /\ mr.recorder = "recording" /\ mr.recorder' # "recording"
C28_SettledOnceThenQuiet ==
  /\ [](mr.cleanups = IF mr.settled THEN 1 ELSE 0)
  /\ [](mr.settled =>
         /\ mr.promise # "pending"
         /\ mr.scheduled = "none" /\ ~mr.frameTimeoutId /\ ~mr.animationFrameId
         /\ ~mr.abortHandler
         /\ \A stopOk \in BOOLEAN : abortHandler(State, stopOk) = State)
  /\ [][mr.settled => mrOutcome' = mrOutcome /\ mr.drawn' = mr.drawn]_vars
  /\ [][lateOnStop \/ lateOnError =>
          mrResources' = mrResources /\ progress' = progress]_vars

\* C30: a failed FFmpeg load is not cached: concurrent convertWebMToMP4 calls
\* share one in-flight load, and a call made after a load attempt has failed
\* starts a fresh load attempt instead of waiting on the rejected promise.
pendingLoads == {n \in DOMAIN ffmpeg.promises : ffmpeg.promises[n] = "pending"}
callStarts(c) == ffmpeg.calls[c].pc = "idle" /\ ffmpeg'.calls[c].pc = "loading"
C30_FailedLoadIsNotCached ==
  /\ [](Cardinality(pendingLoads) <= 1)
  /\ [](\A c \in Calls :
          (ffmpeg.calls[c].pc = "loading" /\ pendingLoads # {}) =>
             ffmpeg.calls[c].awaits \in pendingLoads)
  /\ [][\A c \in Calls :
          callStarts(c) => ffmpeg'.promises[ffmpeg'.calls[c].awaits] = "pending"]_vars

====
